---------------------------- MODULE Spec2Model ----------------------------
(***************************************************************************)
(* Model of bf-rando-installer's core: the fleet manager                   *)
(* (src/src/dll_management.rs), the signature classifier                   *)
(* (src/src/dll_classifier.rs) and the metadata parser                     *)
(* (src/src/dll_parser.rs).                                                *)
(*                                                                         *)
(* Spec      the managed directory under scans and installs                *)
(* SpecScan  search_game_dir applied to directories of up to               *)
(*           MaxScanFiles files                                            *)
(* SpecDll   parse_dll and classify_dll applied to byte buffers            *)
(***************************************************************************)
EXTENDS Integers, Sequences, FiniteSets, TLC

VARIABLES
    dir,        \* the managed directory: file name -> content
    scan,       \* the (current, all_dlls) result of the last search_game_dir
    last,       \* what the last operation was given and what it did
    installs,   \* number of installs run so far
    buffer,     \* the bytes given to parse_dll / classify_dll
    overflow_checks_on,  \* whether the build checks arithmetic for overflow
    result,     \* what parse_dll / classify_dll made of buffer
    app,        \* the front end's Inner behind its Mutex
    workers,    \* the threads run_off_thread spawned that have not ended
    other_dir   \* the managed directory of a second game installation

fsvars == <<dir, scan, last, installs>>
dllvars == <<buffer, overflow_checks_on, result>>
guivars == <<app, workers, other_dir>>
vars ==
    <<dir, scan, last, installs, buffer, overflow_checks_on, result, app,
      workers, other_dir>>

(***************************************************************************)
(* Bounds                                                                  *)
(***************************************************************************)
MaxPatch == 1        \* versions 1.0.0 .. 1.0.MaxPatch
MaxHash == 2         \* content hashes 1 .. MaxHash
MaxSuffix == 1       \* outcomes of the random 10-character suffix
MaxInitFiles == 3    \* files in the directory before the first operation
MaxInstalls == 1     \* installs in one behaviour
MaxScanErrors == 1   \* files that fail to open/map during one scan
MaxScanFiles == 5    \* files of a directory under SpecScan
MaxOverlay == 1      \* bytes after the last section of an image
MaxPieces == 2       \* strings of a #US heap built from UsPieces
MaxWorkers == 4      \* threads of run_off_thread alive at once
MaxGuiFiles == 1     \* files in the directory when the front end starts

(***************************************************************************)
(* dll_classifier.rs: DllClassification and RandoVersion                   *)
(***************************************************************************)
\* A u64 is held as its four 16-bit parts, most significant first.
U64(n) == <<0, 0, n \div 65536, n % 65536>>

U64Less(a, b) ==
    \E i \in 1..4 : a[i] < b[i] /\ \A j \in 1..(i - 1) : a[j] = b[j]

\* x / 10 and x % 10
U64DivMod10(x) ==
    LET t2 == (x[1] % 10) * 65536 + x[2]
        t3 == (t2 % 10) * 65536 + x[3]
        t4 == (t3 % 10) * 65536 + x[4]
    IN  [q |-> <<x[1] \div 10, t2 \div 10, t3 \div 10, t4 \div 10>>,
         r |-> t4 % 10]

\* the decimal digits of x, most significant first
RECURSIVE U64DigitsFrom(_)
U64DigitsFrom(x) ==
    IF x = <<0, 0, 0, 0>> THEN <<>>
    ELSE Append(U64DigitsFrom(U64DivMod10(x).q), U64DivMod10(x).r)

U64Digits(x) == IF x = <<0, 0, 0, 0>> THEN <<0>> ELSE U64DigitsFrom(x)

\* impl Display for u64
RECURSIVE DigitString(_)
DigitString(ds) ==
    IF ds = <<>> THEN "" ELSE ToString(Head(ds)) \o DigitString(Tail(ds))

U64Display(x) == DigitString(U64Digits(x))

RandoVersion(major, minor, patch) ==
    [major |-> major, minor |-> minor, patch |-> patch]

Invalid == [tag |-> "Invalid"]
NonDe == [tag |-> "NonDe"]
Vanilla == [tag |-> "Vanilla"]
Rando(v) == [tag |-> "Rando", v |-> v]
UnknownRando(hash) == [tag |-> "UnknownRando", hash |-> hash]

Versions == {RandoVersion(U64(1), U64(0), U64(p)) : p \in 0..MaxPatch}
Hashes == 1..MaxHash

DllClassification ==
    {Invalid, NonDe, Vanilla} \cup {Rando(v) : v \in Versions}
        \cup {UnknownRando(h) : h \in Hashes}

\* impl Display for RandoVersion: "{major}.{minor}.{patch}"
VersionDisplay(v) ==
    U64Display(v.major) \o "." \o U64Display(v.minor) \o "."
        \o U64Display(v.patch)

\* #[derive(Ord)] on RandoVersion: lexicographic on (major, minor, patch)
VersionLess(a, b) ==
    \/ U64Less(a.major, b.major)
    \/ a.major = b.major /\ U64Less(a.minor, b.minor)
    \/ a.major = b.major /\ a.minor = b.minor /\ U64Less(a.patch, b.patch)

(***************************************************************************)
(* Byte buffers.  A buffer is a sequence of bytes; a slice (&[u8]) of it   *)
(* is the offset of its first byte in the buffer and its length.  usize is *)
(* 64 bits wide: no sum of the offsets formed below reaches 2^64.          *)
(***************************************************************************)
None == [some |-> FALSE]
Some(v) == [some |-> TRUE, v |-> v]

Slice(off, len) == [off |-> off, len |-> len]

\* the bytes a slice views
Bytes(data, s) == SubSeq(data, s.off + 1, s.off + s.len)

\* <[u8]>::get(a..b)
Get(s, a, b) ==
    IF a <= b /\ b <= s.len THEN Some(Slice(s.off + a, b - a)) ELSE None

\* <[u8]>::get(a..)
GetFrom(s, a) ==
    IF a <= s.len THEN Some(Slice(s.off + a, s.len - a)) ELSE None

\* A u32 is held as its two 16-bit halves.
U32(hi, lo) == [hi |-> hi, lo |-> lo]

\* u32 as usize.  A value of 2^24 or more lies beyond every buffer of the
\* model, and is held as 2^24.
AsUsize(w) == IF w.hi >= 256 THEN 16777216 ELSE w.hi * 65536 + w.lo

\* a + b in u32: the wrapped sum, and whether it overflowed
U32Add(a, b) ==
    LET lo == a.lo + b.lo
        hi == a.hi + b.hi + (lo \div 65536)
    IN  [v |-> U32(hi % 65536, lo % 65536), overflow |-> hi >= 65536]

\* a - b in u32, for a >= b
U32Sub(a, b) ==
    IF a.lo >= b.lo THEN U32(a.hi - b.hi, a.lo - b.lo)
    ELSE U32(a.hi - b.hi - 1, a.lo + 65536 - b.lo)

U32Less(a, b) == a.hi < b.hi \/ (a.hi = b.hi /\ a.lo < b.lo)

\* u32::next_multiple_of(4)
U32NextMultipleOf4(a) ==
    IF a.lo % 4 = 0 THEN [v |-> a, overflow |-> FALSE]
    ELSE U32Add(a, U32(0, 4 - (a.lo % 4)))

\* usize::next_multiple_of(4)
NextMultipleOf4(n) == IF n % 4 = 0 THEN n ELSE n + (4 - (n % 4))

\* Range<u32>::contains
RangeContains(start, end, x) == ~U32Less(x, start) /\ U32Less(x, end)

Ok(v) == [tag |-> "Ok", v |-> v]
Err(msg) == [tag |-> "Err", msg |-> msg]
\* the thread panics, where the build checks arithmetic for overflow
Panic(msg) == [tag |-> "Panic", msg |-> msg]

(***************************************************************************)
(* dll_parser.rs                                                           *)
(***************************************************************************)
read_u16(data, s, offset, error_msg) ==
    LET g == Get(s, offset, offset + 2)
    IN  IF ~g.some THEN Err(error_msg)
        ELSE Ok(data[g.v.off + 1] + 256 * data[g.v.off + 2])

read_u32(data, s, offset, error_msg) ==
    LET g == Get(s, offset, offset + 4)
    IN  IF ~g.some THEN Err(error_msg)
        ELSE Ok(U32(data[g.v.off + 3] + 256 * data[g.v.off + 4],
                    data[g.v.off + 1] + 256 * data[g.v.off + 2]))

DllSection(virtual_start, virtual_end, file_bytes) ==
    [virtual_start |-> virtual_start, virtual_end |-> virtual_end,
     file_bytes |-> file_bytes]

CliStream(name, stream_data) == [name |-> name, data |-> stream_data]

\* mutant: a later section that holds the RVA takes precedence
RECURSIVE resolve_rva_from_last(_, _, _, _)
resolve_rva_from_last(rva, sections, i, error_msg) ==
    IF i > Len(sections) THEN Err(error_msg)
    ELSE LET section == sections[i]
             later == resolve_rva_from_last(rva, sections, i + 1, error_msg)
         IN  IF later.tag = "Ok" THEN later
             ELSE IF RangeContains(section.virtual_start, section.virtual_end, rva)
             THEN LET section_offset == U32Sub(rva, section.virtual_start)
                      g == GetFrom(section.file_bytes, AsUsize(section_offset))
                  IN  IF g.some THEN Ok(g.v) ELSE Err(error_msg)
             ELSE Err(error_msg)

RECURSIVE resolve_rva_from(_, _, _, _)
resolve_rva_from(rva, sections, i, error_msg) ==
    IF i > Len(sections) THEN Err(error_msg)
    ELSE LET section == sections[i]
         IN  IF RangeContains(section.virtual_start, section.virtual_end, rva)
             THEN LET section_offset == U32Sub(rva, section.virtual_start)
                      g == GetFrom(section.file_bytes, AsUsize(section_offset))
                  IN  IF g.some THEN Ok(g.v) ELSE Err(error_msg)
             ELSE resolve_rva_from(rva, sections, i + 1, error_msg)

resolve_rva(rva, sections, error_msg) ==
    resolve_rva_from(rva, sections, 1, error_msg)

\* mutant: a section whose file range runs past the end of the file is
\* cut at the end of the file
ReadSection_cut_at_eof(data, pe_header, section_start, overflow_checks) ==
    LET virtual_size == read_u32(data, pe_header, section_start + 8, "EOF section")
        virtual_start == read_u32(data, pe_header, section_start + 12, "EOF section")
        file_size == read_u32(data, pe_header, section_start + 16, "EOF section")
        file_start == read_u32(data, pe_header, section_start + 20, "EOF section")
    IN  IF virtual_size.tag = "Err" THEN virtual_size
        ELSE IF virtual_start.tag = "Err" THEN virtual_start
        ELSE IF file_size.tag = "Err" THEN file_size
        ELSE IF file_start.tag = "Err" THEN file_start
        ELSE LET file_bytes ==
                    IF AsUsize(file_start.v) + AsUsize(file_size.v) <= Len(data)
                    THEN Get(Slice(0, Len(data)), AsUsize(file_start.v),
                             AsUsize(file_start.v) + AsUsize(file_size.v))
                    ELSE GetFrom(Slice(0, Len(data)), AsUsize(file_start.v))
                 virtual_end == U32Add(virtual_start.v, virtual_size.v)
             IN  IF ~file_bytes.some THEN Err("EOF section data")
                 ELSE IF virtual_end.overflow /\ overflow_checks
                 THEN Panic("attempt to add with overflow")
                 ELSE Ok(DllSection(virtual_start.v, virtual_end.v, file_bytes.v))

\* one turn of `for i in 0..num_sections`: the section, or the error
ReadSection(data, pe_header, section_start, overflow_checks) ==
    LET virtual_size == read_u32(data, pe_header, section_start + 8, "EOF section")
        virtual_start == read_u32(data, pe_header, section_start + 12, "EOF section")
        file_size == read_u32(data, pe_header, section_start + 16, "EOF section")
        file_start == read_u32(data, pe_header, section_start + 20, "EOF section")
    IN  IF virtual_size.tag = "Err" THEN virtual_size
        ELSE IF virtual_start.tag = "Err" THEN virtual_start
        ELSE IF file_size.tag = "Err" THEN file_size
        ELSE IF file_start.tag = "Err" THEN file_start
        ELSE LET file_bytes ==
                    Get(Slice(0, Len(data)), AsUsize(file_start.v),
                        AsUsize(file_start.v) + AsUsize(file_size.v))
                 virtual_end == U32Add(virtual_start.v, virtual_size.v)
             IN  IF ~file_bytes.some THEN Err("EOF section data")
                 ELSE IF virtual_end.overflow /\ overflow_checks
                 THEN Panic("attempt to add with overflow")
                 ELSE Ok(DllSection(virtual_start.v, virtual_end.v, file_bytes.v))

RECURSIVE ReadSections(_, _, _, _, _, _, _)
ReadSections(data, pe_header, opt_header_size, num_sections, i, overflow_checks, sections) ==
    IF i = num_sections THEN Ok(sections)
    ELSE LET section == ReadSection(data, pe_header,
                                    24 + opt_header_size + i * 40,
                                    overflow_checks)
         IN  IF section.tag # "Ok" THEN section
             ELSE ReadSections(data, pe_header, opt_header_size, num_sections,
                               i + 1, overflow_checks,
                               Append(sections, section.v))

\* stream_header[8..].iter().position(|&c| c == 0)
NamePosition(data, stream_header) ==
    LET zeros == {k \in 0..(stream_header.len - 9) :
                    data[stream_header.off + 8 + k + 1] = 0}
    IN  IF zeros = {} THEN None
        ELSE Some(CHOOSE k \in zeros : \A j \in zeros : k <= j)

RECURSIVE ReadStreams(_, _, _, _, _)
ReadStreams(data, metadata, stream_header, remaining, streams) ==
    IF remaining = 0 THEN Ok(streams)
    ELSE
    LET offset == read_u32(data, stream_header, 0, "EOF stream offset")
        size == read_u32(data, stream_header, 4, "EOF stream size")
    IN  IF offset.tag = "Err" THEN offset
        ELSE IF size.tag = "Err" THEN size
        ELSE
        LET name_length == NamePosition(data, stream_header)
        IN  IF ~name_length.some THEN Err("EOF stream name")
            ELSE
            LET stream_data == Get(metadata, AsUsize(offset.v),
                                   AsUsize(offset.v) + AsUsize(size.v))
                rounded_name_length == NextMultipleOf4(name_length.v + 1)
                next_header == GetFrom(stream_header, 8 + rounded_name_length)
            IN  IF ~stream_data.some THEN Err("EOF stream data")
                ELSE IF ~next_header.some THEN Err("EOF next stream")
                ELSE ReadStreams(data, metadata, next_header.v, remaining - 1,
                        Append(streams,
                               CliStream(Slice(stream_header.off + 8,
                                               name_length.v),
                                         stream_data.v)))

\* mutant: the first stream whose name begins with name
FindStream_prefix(data, streams, name) ==
    LET hits == {i \in DOMAIN streams :
                    /\ streams[i].name.len >= Len(name)
                    /\ SubSeq(Bytes(data, streams[i].name), 1, Len(name)) = name}
    IN  IF hits = {} THEN None
        ELSE Some(streams[CHOOSE i \in hits : \A j \in hits : i <= j])

\* streams.iter().find(|&s| s.name == name)
FindStream(data, streams, name) ==
    LET hits == {i \in DOMAIN streams : Bytes(data, streams[i].name) = name}
    IN  IF hits = {} THEN None
        ELSE Some(streams[CHOOSE i \in hits : \A j \in hits : i <= j])

DllHeaps(strings, us) == [strings |-> strings, us |-> us]

\* parse_dll from `if metadata.get(0..4) != Some(b"BSJB")` on
ParseMetadata(data, metadata, overflow_checks) ==
    LET magic == Get(metadata, 0, 4)
    IN  IF ~(magic.some /\ Bytes(data, magic.v) = <<66, 83, 74, 66>>)
        THEN Err("Invalid metadata magic")
        ELSE
        LET raw_length == read_u32(data, metadata, 12, "EOF metadata version length")
        IN  IF raw_length.tag = "Err" THEN raw_length
            ELSE
            LET rounded == U32NextMultipleOf4(raw_length.v)
            IN  IF rounded.overflow /\ overflow_checks
                THEN Panic("attempt to add with overflow")
                ELSE
                LET version_length == AsUsize(rounded.v)
                    num_streams == read_u16(data, metadata,
                                            16 + version_length + 2,
                                            "EOF num_streams")
                IN  IF num_streams.tag = "Err" THEN num_streams
                    ELSE
                    LET stream_header == GetFrom(metadata, 16 + version_length + 4)
                    IN  IF ~stream_header.some THEN Err("EOF streams")
                        ELSE
                        LET streams == ReadStreams(data, metadata, stream_header.v,
                                                   num_streams.v, <<>>)
                        IN  IF streams.tag = "Err" THEN streams
                            ELSE
                            LET strings_heap ==
                                    FindStream(data, streams.v,
                                               <<35, 83, 116, 114, 105, 110, 103, 115>>)
                                us_heap == FindStream(data, streams.v, <<35, 85, 83>>)
                            IN  IF ~strings_heap.some THEN Err("No #Strings heap")
                                ELSE IF ~us_heap.some THEN Err("No #US heap")
                                ELSE Ok(DllHeaps(strings_heap.v.data, us_heap.v.data))

\* parse_dll from `let cli_header_rva` on
ParseCli(data, optional_header, sections, overflow_checks) ==
    LET cli_header_rva == read_u32(data, optional_header, 208, "opt_header too small")
    IN  IF cli_header_rva.tag = "Err" THEN cli_header_rva
        ELSE
        LET cli_header == resolve_rva(cli_header_rva.v, sections,
                                      "Invalid CLI header RVA")
        IN  IF cli_header.tag = "Err" THEN cli_header
            ELSE
            LET metadata_rva == read_u32(data, cli_header.v, 8, "EOF metadata rva")
            IN  IF metadata_rva.tag = "Err" THEN metadata_rva
                ELSE
                LET metadata == resolve_rva(metadata_rva.v, sections,
                                            "Invalid metadata RVA")
                IN  IF metadata.tag = "Err" THEN metadata
                    ELSE ParseMetadata(data, metadata.v, overflow_checks)

\* parse_dll: Ok(DllHeaps), Err(message), or a panic where the build checks
\* arithmetic for overflow (overflow_checks; the wrapped value is used where
\* it does not)
parse_dll(data, overflow_checks) ==
    LET whole == Slice(0, Len(data))
        lfanew == read_u32(data, whole, 60, "EOF lfanew")
    IN  IF lfanew.tag = "Err" THEN lfanew
        ELSE
        LET pe_header_opt == GetFrom(whole, AsUsize(lfanew.v))
        IN  IF ~pe_header_opt.some THEN Err("Invalid lfanew")
            ELSE
            LET pe_header == pe_header_opt.v
                magic == Get(pe_header, 0, 4)
            IN  IF ~(magic.some /\ Bytes(data, magic.v) = <<80, 69, 0, 0>>)
                THEN Err("Invalid PE magic")
                ELSE
                LET num_sections == read_u16(data, pe_header, 6, "EOF num_sections")
                    opt_header_size == read_u16(data, pe_header, 20,
                                                "EOF opt_header_size")
                IN  IF num_sections.tag = "Err" THEN num_sections
                    ELSE IF opt_header_size.tag = "Err" THEN opt_header_size
                    ELSE
                    LET optional_header ==
                            Get(pe_header, 24, 24 + opt_header_size.v)
                    IN  IF ~optional_header.some THEN Err("EOF optional_header")
                        ELSE
                        LET sections ==
                                ReadSections(data, pe_header, opt_header_size.v,
                                             num_sections.v, 0, overflow_checks,
                                             <<>>)
                        IN  IF sections.tag # "Ok" THEN sections
                            ELSE ParseCli(data, optional_header.v, sections.v,
                                          overflow_checks)

(***************************************************************************)
(* dll_classifier.rs: classify_dll                                         *)
(***************************************************************************)
\* memmem::find: the offset of the first occurrence of needle in haystack
memmem_find(haystack, needle) ==
    LET hits == {i \in 0..(Len(haystack) - Len(needle)) :
                    SubSeq(haystack, i + 1, i + Len(needle)) = needle}
    IN  IF hits = {} THEN None
        ELSE Some(CHOOSE i \in hits : \A j \in hits : i <= j)

\* compute_hash: DefaultHasher over all the bytes of value.  The 64-bit
\* SipHash is stood for by a 16-bit sum that also takes in every byte and
\* its position.
RECURSIVE HashRange(_, _, _)
HashRange(value, lo, hi) ==
    IF lo > hi THEN 0
    ELSE IF lo = hi THEN (lo * (value[lo] + 1)) % 65521
    ELSE LET mid == (lo + hi) \div 2
         IN  (HashRange(value, lo, mid) + HashRange(value, mid + 1, hi)) % 65521

compute_hash(value) == HashRange(value, 1, Len(value))

\* mutant: wrapping_mul(10).wrapping_add(digit)
U64WrappingMul10Add(x, digit) ==
    LET t4 == x[4] * 10 + digit
        t3 == x[3] * 10 + (t4 \div 65536)
        t2 == x[2] * 10 + (t3 \div 65536)
        t1 == x[1] * 10 + (t2 \div 65536)
    IN  Some(<<t1 % 65536, t2 % 65536, t3 % 65536, t4 % 65536>>)

\* checked_mul(10)? followed by checked_add(digit)? on a u64
U64CheckedMul10Add(x, digit) ==
    LET t4 == x[4] * 10 + digit
        t3 == x[3] * 10 + (t4 \div 65536)
        t2 == x[2] * 10 + (t3 \div 65536)
        t1 == x[1] * 10 + (t2 \div 65536)
    IN  IF t1 >= 65536 THEN None
        ELSE Some(<<t1, t2 % 65536, t3 % 65536, t4 % 65536>>)

\* parse_trusted_utf16_number: bytes holds (digit, 0) pairs
RECURSIVE ParseNumberFrom(_, _, _)
ParseNumberFrom(bytes, i, number) ==
    IF i > Len(bytes) THEN Some(number)
    ELSE LET next == U64CheckedMul10Add(number, bytes[i] - 48)
         IN  IF ~next.some THEN None
             ELSE ParseNumberFrom(bytes, i + 2, next.v)

parse_trusted_utf16_number(bytes) == ParseNumberFrom(bytes, 1, U64(0))

IsDigit(b) == b \in 48..57

\* (?:\d\x00)+ matched greedily from index i: the index after the last pair
\* (i itself if there is no pair).  The byte after a shorter run is a digit,
\* which neither \. nor \x00 matches, so only the longest run can be
\* followed by the rest of the pattern.
RECURSIVE DigitRunEnd(_, _)
DigitRunEnd(h, i) ==
    IF i + 1 <= Len(h) /\ IsDigit(h[i]) /\ h[i + 1] = 0
    THEN DigitRunEnd(h, i + 2)
    ELSE i

\* (?-u).((?:\d\x00)+)\.\x00((?:\d\x00)+)\.\x00((?:\d\x00)+)\x00 matched with
\* its first byte at index i; `.` matches every byte but \n
MatchAt(h, i) ==
    IF i > Len(h) \/ h[i] = 10 THEN None
    ELSE
    LET e1 == DigitRunEnd(h, i + 1)
    IN  IF ~(e1 > i + 1 /\ e1 + 1 <= Len(h) /\ h[e1] = 46 /\ h[e1 + 1] = 0)
        THEN None
        ELSE
        LET e2 == DigitRunEnd(h, e1 + 2)
        IN  IF ~(e2 > e1 + 2 /\ e2 + 1 <= Len(h) /\ h[e2] = 46 /\ h[e2 + 1] = 0)
            THEN None
            ELSE
            LET e3 == DigitRunEnd(h, e2 + 2)
            IN  IF ~(e3 > e2 + 2 /\ e3 <= Len(h) /\ h[e3] = 0) THEN None
                ELSE Some([full |-> SubSeq(h, i, e3),
                           major |-> SubSeq(h, i + 1, e1 - 1),
                           minor |-> SubSeq(h, e1 + 2, e2 - 1),
                           patch |-> SubSeq(h, e2 + 2, e3 - 1),
                           end |-> e3 + 1])

\* captures_iter: the leftmost match at or after index from, then the
\* matches after its end
RECURSIVE CapturesIter(_, _)
CapturesIter(h, from) ==
    LET starts == {i \in from..Len(h) : MatchAt(h, i).some}
    IN  IF starts = {} THEN <<>>
        ELSE LET m == MatchAt(h, CHOOSE i \in starts : \A j \in starts : i <= j).v
             IN  <<m>> \o CapturesIter(h, m.end)

\* mutant: the closure without the length-prefix test
VersionOfMatch_any_prefix(m) ==
    LET major == parse_trusted_utf16_number(m.major)
        minor == parse_trusted_utf16_number(m.minor)
        patch == parse_trusted_utf16_number(m.patch)
    IN  IF ~(major.some /\ minor.some /\ patch.some) THEN None
        ELSE Some(RandoVersion(major.v, minor.v, patch.v))

\* the closure given to filter_map
VersionOfMatch(m) ==
    LET length_prefix == m.full[1]
        major == parse_trusted_utf16_number(m.major)
        minor == parse_trusted_utf16_number(m.minor)
        patch == parse_trusted_utf16_number(m.patch)
    IN  IF length_prefix # Len(m.full) - 1 THEN None
        ELSE IF ~(major.some /\ minor.some /\ patch.some) THEN None
        ELSE Some(RandoVersion(major.v, minor.v, patch.v))

\* mutant: Iterator::last
MaxVersion_last(versions) == versions[Len(versions)]

\* Iterator::max
RECURSIVE MaxVersion(_)
MaxVersion(versions) ==
    IF Len(versions) = 1 THEN versions[1]
    ELSE LET rest == MaxVersion(Tail(versions))
         IN  IF VersionLess(rest, versions[1]) THEN versions[1] ELSE rest

extract_rando_version(us_heap) ==
    LET matches == CapturesIter(us_heap, 1)
        found == SelectSeq([i \in DOMAIN matches |-> VersionOfMatch(matches[i])],
                           LAMBDA o : o.some)
    IN  IF found = <<>> THEN None
        ELSE Some(MaxVersion([i \in DOMAIN found |-> found[i].v]))

DeMarker ==
    <<83, 112, 105, 114, 105, 116, 71, 114, 101, 110, 97, 100, 101, 68, 97,
      109, 97, 103, 101, 68, 101, 97, 108, 101, 114, 0>>
LegacyMarker ==
    <<72, 111, 108, 100, 105, 110, 103, 78, 105, 103, 104, 116, 98, 101, 114,
      114, 121, 67, 111, 110, 100, 105, 116, 105, 111, 110, 0>>
RandoMarker == <<82, 97, 110, 100, 111, 109, 105, 122, 101, 114, 0>>

\* classify_dll with the Randomizer test ahead of the edition tests
classify_dll_rando_first(file_data, overflow_checks) ==
    LET parsed == parse_dll(file_data, overflow_checks)
    IN  IF parsed.tag = "Panic" THEN parsed
        ELSE IF parsed.tag = "Err" THEN Invalid
        ELSE
        LET strings == Bytes(file_data, parsed.v.strings)
            us == Bytes(file_data, parsed.v.us)
            v == extract_rando_version(us)
        IN  IF ~memmem_find(strings, RandoMarker).some THEN Vanilla
            ELSE IF ~memmem_find(strings, DeMarker).some
            THEN (IF memmem_find(strings, LegacyMarker).some THEN NonDe
                  ELSE Invalid)
            ELSE IF v.some THEN Rando(v.v)
            ELSE UnknownRando(compute_hash(file_data))

\* classify_dll hashing the two heaps in place of the buffer
classify_dll_hash_of_heaps(file_data, overflow_checks) ==
    LET parsed == parse_dll(file_data, overflow_checks)
    IN  IF parsed.tag = "Panic" THEN parsed
        ELSE IF parsed.tag = "Err" THEN Invalid
        ELSE
        LET strings == Bytes(file_data, parsed.v.strings)
            us == Bytes(file_data, parsed.v.us)
            v == extract_rando_version(us)
        IN  IF ~memmem_find(strings, DeMarker).some
            THEN (IF memmem_find(strings, LegacyMarker).some THEN NonDe
                  ELSE Invalid)
            ELSE IF ~memmem_find(strings, RandoMarker).some THEN Vanilla
            ELSE IF v.some THEN Rando(v.v)
            ELSE UnknownRando(compute_hash(strings \o us))

\* classify_dll: the classification, or the panic of parse_dll
classify_dll(file_data, overflow_checks) ==
    LET parsed == parse_dll(file_data, overflow_checks)
    IN  IF parsed.tag = "Panic" THEN parsed
        ELSE IF parsed.tag = "Err" THEN Invalid
        ELSE
        LET strings == Bytes(file_data, parsed.v.strings)
            us == Bytes(file_data, parsed.v.us)
            v == extract_rando_version(us)
        IN  IF ~memmem_find(strings, DeMarker).some
            THEN (IF memmem_find(strings, LegacyMarker).some THEN NonDe
                  ELSE Invalid)
            ELSE IF ~memmem_find(strings, RandoMarker).some THEN Vanilla
            ELSE IF v.some THEN Rando(v.v)
            ELSE UnknownRando(compute_hash(file_data))

(***************************************************************************)
(* dll_management.rs: OriDllKind, OriDll                                   *)
(***************************************************************************)
\* position of the variant in the enum declaration
KindVariant(k) ==
    CASE k.tag = "Vanilla" -> 0
      [] k.tag = "Rando" -> 1
      [] k.tag = "UnknownRando" -> 2

\* mutant: the order looks at the variant alone
KindLess_variant_only(a, b) == KindVariant(a) < KindVariant(b)

\* #[derive(Ord)] on OriDllKind: variant first, then the payload
KindLess(a, b) ==
    \/ KindVariant(a) < KindVariant(b)
    \/ a.tag = "Rando" /\ b.tag = "Rando" /\ VersionLess(a.v, b.v)
    \/ a.tag = "UnknownRando" /\ b.tag = "UnknownRando" /\ a.hash < b.hash

NoDll == [none |-> TRUE]

\* OriDll::new: None for Invalid and NonDe, else the entry
OriDll_new(path, classification) ==
    IF classification.tag \in {"Invalid", "NonDe"} THEN NoDll
    ELSE [kind |-> classification, path |-> path, display_name |-> path]

Target == "Assembly-CSharp.dll"

(***************************************************************************)
(* Files.  A content is the classification its bytes yield, and whether    *)
(* the bytes are the remains of a write that failed part-way.              *)
(***************************************************************************)
Whole(c) == [cls |-> c, torn |-> FALSE]
Torn(c) == [cls |-> c, torn |-> TRUE]

\* classify_dll on the bytes of a file
Classification(content) == content.cls

NotFound == [ok |-> FALSE, kind |-> "NotFound"]
IoError == [ok |-> FALSE, kind |-> "Other"]

\* classify_dll_file: File::open and Mmap::map may fail; a missing file is
\* ErrorKind::NotFound
classify_dll_file(d, path, io_err) ==
    IF path \notin DOMAIN d THEN NotFound
    ELSE IF io_err THEN IoError
    ELSE [ok |-> TRUE, value |-> Classification(d[path])]

\* What a prefix of the bytes of c can classify as: parse_dll needs the
\* file range of every section inside the buffer, so a prefix either fails
\* to parse or has the same heaps; the hash of an unversioned build is taken
\* over the whole (now shorter) buffer.
TornClassifications(c) ==
    {Invalid} \cup
        (IF c.tag = "UnknownRando" THEN {UnknownRando(h) : h \in Hashes}
         ELSE {c})

(***************************************************************************)
(* should_backup_target                                                    *)
(***************************************************************************)
KindMatchesClassification(kind, classification) ==
    CASE kind.tag = "Vanilla" /\ classification.tag = "Vanilla" -> TRUE
      [] kind.tag = "Rando" /\ classification.tag = "Rando" ->
            kind.v = classification.v
      [] kind.tag = "UnknownRando" /\ classification.tag = "UnknownRando" ->
            kind.hash = classification.hash
      [] OTHER -> FALSE

\* mutant: the entry at the target path itself counts as a copy
should_backup_target_any_path(target, target_classification, all_dlls) ==
    ~ \E i \in DOMAIN all_dlls :
        KindMatchesClassification(all_dlls[i].kind, target_classification)

\* mutant: only an occupant that holds a build is backed up
should_backup_target_builds_only(target, target_classification, all_dlls) ==
    /\ target_classification.tag \in {"Vanilla", "Rando", "UnknownRando"}
    /\ ~ \E i \in DOMAIN all_dlls :
            /\ all_dlls[i].path # target
            /\ KindMatchesClassification(all_dlls[i].kind,
                                         target_classification)

\* mutant: the occupant is backed up whatever the catalog holds
should_backup_target_always(target, target_classification, all_dlls) ==
    TRUE

should_backup_target(target, target_classification, all_dlls) ==
    LET copy_exists ==
            \E i \in DOMAIN all_dlls :
                /\ all_dlls[i].path # target
                /\ KindMatchesClassification(all_dlls[i].kind,
                                             target_classification)
    IN  ~copy_exists

(***************************************************************************)
(* unique_name_for_dll                                                     *)
(***************************************************************************)
\* Alphanumeric.sample_string(rng, 10)
RandomSuffixes == {"Zk3p9QwX0" \o ToString(i) : i \in 1..MaxSuffix}

TargetName(dll) ==
    CASE dll.tag = "Vanilla" -> "Assembly-CSharp.vanilla"
      [] dll.tag = "UnknownRando" -> "Assembly-CSharp.rando"
      [] dll.tag = "Rando" -> "Assembly-CSharp.rando." \o VersionDisplay(dll.v)
      [] OTHER -> "Assembly-CSharp.unknown"

\* mutant: the name always carries the random suffix
unique_name_for_dll_always_suffixed(d, dll, exists_err, random_suffix) ==
    TargetName(dll) \o "." \o random_suffix \o ".dll"

\* exists_err: std::fs::exists returned Err; random_suffix: the sampled string
unique_name_for_dll(d, dll, exists_err, random_suffix) ==
    LET target_name == TargetName(dll)
        target_path == target_name \o ".dll"
    IN  IF ~exists_err /\ target_path \notin DOMAIN d
        THEN target_path
        ELSE target_name \o "." \o random_suffix \o ".dll"

(***************************************************************************)
(* File system calls                                                       *)
(***************************************************************************)
Put(d, name, content) ==
    [n \in DOMAIN d \cup {name} |-> IF n = name THEN content ELSE d[n]]

Remove(d, name) == [n \in DOMAIN d \ {name} |-> d[n]]

\* std::fs::rename: replaces the destination if it exists; on failure
\* nothing has changed
fs_rename(d, from, to, fails) ==
    IF fails THEN [ok |-> FALSE, dir |-> d]
    ELSE [ok |-> TRUE, dir |-> Put(Remove(d, from), to, d[from])]

\* How a write of bytes classifying as c into a path can end: done, failed
\* before the path was touched, or failed leaving a prefix of the bytes.
WriteOutcomes(c) ==
    {[kind |-> "ok"], [kind |-> "untouched"]}
        \cup {[kind |-> "torn", cls |-> t] : t \in TornClassifications(c)}

\* std::fs::write: File::create then write_all
fs_write(d, to, bytes, w) ==
    CASE w.kind = "ok" -> [ok |-> TRUE, dir |-> Put(d, to, bytes)]
      [] w.kind = "untouched" -> [ok |-> FALSE, dir |-> d]
      [] w.kind = "torn" -> [ok |-> FALSE, dir |-> Put(d, to, Torn(w.cls))]

\* std::fs::copy: the source is opened first; a source that is the
\* destination is truncated by opening the destination (or the copy is refused)
fs_copy(d, from, to, w) ==
    IF from \notin DOMAIN d THEN [ok |-> FALSE, dir |-> d]
    ELSE IF from = to THEN
        IF w.kind = "ok" THEN [ok |-> TRUE, dir |-> Put(d, to, Torn(Invalid))]
        ELSE [ok |-> FALSE, dir |-> d]
    ELSE fs_write(d, to, d[from], w)

\* The I/O outcomes an install of bytes classifying as c can meet.
IoChoices(c) ==
    [classify_err : BOOLEAN, exists_err : BOOLEAN, rename_err : BOOLEAN,
     suffix : RandomSuffixes, write : WriteOutcomes(c)]

NoName == "-"

(***************************************************************************)
(* prepare_target, install_dll, install_new_dll                            *)
(***************************************************************************)
\* The result carries, besides Ok(target)/Err and the directory it leaves,
\* what was observed on the way: the classification of the occupant, the
\* backup name the rename was issued to (NoName if none was), whether
\* std::fs::exists failed, and the step that failed.
PrepareResult(ok, d, step, classified, new_name, exists_err) ==
    [ok |-> ok, dir |-> d, step |-> step, classified |-> classified,
     new_name |-> new_name, exists_err |-> exists_err]

\* mutant: every classification error is taken for a missing file
prepare_target_any_error_is_missing(d, all_dlls, io) ==
    LET target == Target
        c == classify_dll_file(d, target, io.classify_err)
    IN  IF ~c.ok THEN PrepareResult(TRUE, d, "none", c, NoName, FALSE)
        ELSE IF should_backup_target(target, c.value, all_dlls) THEN
            LET new_name == unique_name_for_dll(d, c.value, io.exists_err,
                                                io.suffix)
                r == fs_rename(d, target, new_name, io.rename_err)
            IN  PrepareResult(r.ok, r.dir, IF r.ok THEN "none" ELSE "rename",
                              c, new_name, io.exists_err)
        ELSE PrepareResult(TRUE, d, "none", c, NoName, FALSE)

\* mutant: the backup is a copy of the occupant, which stays in place
prepare_target_backup_by_copy(d, all_dlls, io) ==
    LET target == Target
        c == classify_dll_file(d, target, io.classify_err)
    IN  IF ~c.ok /\ c.kind = "NotFound" THEN
            PrepareResult(TRUE, d, "none", NotFound, NoName, FALSE)
        ELSE IF ~c.ok THEN
            PrepareResult(FALSE, d, "classify", c, NoName, FALSE)
        ELSE IF should_backup_target(target, c.value, all_dlls) THEN
            LET new_name == unique_name_for_dll(d, c.value, io.exists_err,
                                                io.suffix)
            IN  IF io.rename_err
                THEN PrepareResult(FALSE, d, "rename", c, new_name,
                                   io.exists_err)
                ELSE PrepareResult(TRUE, Put(d, new_name, d[target]), "none",
                                   c, new_name, io.exists_err)
        ELSE PrepareResult(TRUE, d, "none", c, NoName, FALSE)

\* mutant: a missing target is an error like any other
prepare_target_missing_is_error(d, all_dlls, io) ==
    LET target == Target
        c == classify_dll_file(d, target, io.classify_err)
    IN  IF ~c.ok THEN
            PrepareResult(FALSE, d, "classify", c, NoName, FALSE)
        ELSE IF should_backup_target(target, c.value, all_dlls) THEN
            LET new_name == unique_name_for_dll(d, c.value, io.exists_err,
                                                io.suffix)
                r == fs_rename(d, target, new_name, io.rename_err)
            IN  PrepareResult(r.ok, r.dir, IF r.ok THEN "none" ELSE "rename",
                              c, new_name, io.exists_err)
        ELSE PrepareResult(TRUE, d, "none", c, NoName, FALSE)

prepare_target(d, all_dlls, io) ==
    LET target == Target
        c == classify_dll_file(d, target, io.classify_err)
    IN  IF ~c.ok /\ c.kind = "NotFound" THEN
            PrepareResult(TRUE, d, "none", NotFound, NoName, FALSE)
        ELSE IF ~c.ok THEN
            PrepareResult(FALSE, d, "classify", c, NoName, FALSE)
        ELSE IF should_backup_target(target, c.value, all_dlls) THEN
            LET new_name == unique_name_for_dll(d, c.value, io.exists_err,
                                                io.suffix)
                r == fs_rename(d, target, new_name, io.rename_err)
            IN  PrepareResult(r.ok, r.dir, IF r.ok THEN "none" ELSE "rename",
                              c, new_name, io.exists_err)
        ELSE PrepareResult(TRUE, d, "none", c, NoName, FALSE)

\* What an install returns and leaves: Ok/Err, the directory, and whether
\* the copy/write into the target path was reached.
InstallResult(p, ok, d, copied) ==
    [ok |-> ok, dir |-> d, copied |-> copied,
     step |-> IF ~p.ok THEN p.step ELSE IF ok THEN "none" ELSE "copy",
     classified |-> p.classified, new_name |-> p.new_name,
     exists_err |-> p.exists_err]

install_dll(d, to_install, all_dlls, io) ==
    LET p == prepare_target(d, all_dlls, io)
    IN  IF ~p.ok THEN InstallResult(p, FALSE, p.dir, FALSE)
        ELSE LET r == fs_copy(p.dir, to_install.path, Target, io.write)
             IN  InstallResult(p, r.ok, r.dir, TRUE)

install_new_dll(d, dll, all_dlls, io) ==
    LET p == prepare_target(d, all_dlls, io)
    IN  IF ~p.ok THEN InstallResult(p, FALSE, p.dir, FALSE)
        ELSE LET r == fs_write(p.dir, Target, dll, io.write)
             IN  InstallResult(p, r.ok, r.dir, TRUE)

(***************************************************************************)
(* search_game_dir, sort_and_filter_duplicates, same_as_previous           *)
(***************************************************************************)
\* mutant: two builds of the same variant count as the same build
same_as_previous_variant_only(previous, new) ==
    previous # NoDll /\ previous.tag = new.tag

\* same_as_previous, with previous.replace(new) left to the caller
same_as_previous(previous, new) ==
    IF previous = NoDll THEN FALSE
    ELSE CASE previous.tag = "Vanilla" /\ new.tag = "Vanilla" -> TRUE
           [] previous.tag = "Rando" /\ new.tag = "Rando" -> previous.v = new.v
           [] previous.tag = "UnknownRando" /\ new.tag = "UnknownRando" ->
                 previous.hash = new.hash
           [] OTHER -> FALSE

\* dlls.swap(a, b)
Swap(dlls, a, b) ==
    [i \in DOMAIN dlls |->
        IF i = a THEN dlls[b] ELSE IF i = b THEN dlls[a] ELSE dlls[i]]

\* x goes behind every element that is not greater: the sort is stable
RECURSIVE InsertByKind(_, _)
InsertByKind(sorted, x) ==
    IF sorted = <<>> THEN <<x>>
    ELSE IF KindLess(x.kind, sorted[Len(sorted)].kind)
         THEN Append(InsertByKind(SubSeq(sorted, 1, Len(sorted) - 1), x),
                     sorted[Len(sorted)])
         ELSE Append(sorted, x)

\* mutant: the entries stay in the order of collect()
sort_by_kind_unsorted(dlls) == dlls

\* dlls.sort_by_key(|dll| dll.kind)
RECURSIVE sort_by_kind(_)
sort_by_kind(dlls) ==
    IF dlls = <<>> THEN <<>>
    ELSE InsertByKind(sort_by_kind(SubSeq(dlls, 1, Len(dlls) - 1)),
                      dlls[Len(dlls)])

\* the filter over the sorted entries, prev_kind carried along
RECURSIVE FilterDuplicates(_, _)
FilterDuplicates(dlls, prev_kind) ==
    IF dlls = <<>> THEN <<>>
    ELSE LET rest == FilterDuplicates(Tail(dlls), Head(dlls).kind)
         IN  IF same_as_previous(prev_kind, Head(dlls).kind) THEN rest
             ELSE <<Head(dlls)>> \o rest

\* mutant: the current entry stays where collect() put it
sort_and_filter_duplicates_unmoved(dlls, current_idx) ==
    FilterDuplicates(sort_by_kind(dlls), NoDll)

\* current_idx = 0 stands for None
\* mutant: the current entry is moved to the front of the list
sort_and_filter_duplicates_current_first(dlls, current_idx) ==
    LET moved == IF current_idx # 0 THEN Swap(dlls, current_idx, 1)
                 ELSE dlls
    IN  FilterDuplicates(sort_by_kind(moved), NoDll)

sort_and_filter_duplicates(dlls, current_idx) ==
    LET moved == IF current_idx # 0 THEN Swap(dlls, current_idx, Len(dlls))
                 ELSE dlls
    IN  FilterDuplicates(sort_by_kind(moved), NoDll)

\* all_dlls.iter().position(|dll| dll.path == installed_path)
Position(dlls, path) ==
    IF \E i \in DOMAIN dlls : dlls[i].path = path
    THEN CHOOSE i \in DOMAIN dlls :
            /\ dlls[i].path = path
            /\ \A j \in 1..(i - 1) : dlls[j].path # path
    ELSE 0

\* mutant: a file that fails to open or map is classified all the same
Classified_despite_failure(d, failed) ==
    {OriDll_new(p, classify_dll_file(d, p, FALSE).value) : p \in DOMAIN d}
        \ {NoDll}

\* The entries the parallel filter_map yields: one per file that opens,
\* maps and classifies as a catalog-eligible build.
Classified(d, failed) ==
    {OriDll_new(p, classify_dll_file(d, p, FALSE).value) :
        p \in DOMAIN d \ failed} \ {NoDll}

\* The orders in which collect() can hold them.
RECURSIVE Orders(_)
Orders(S) ==
    IF S = {} THEN {<<>>}
    ELSE UNION {{<<x>> \o rest : rest \in Orders(S \ {x})} : x \in S}

\* search_game_dir once the Vec is collected
search_game_dir(collected) ==
    LET installed_path == Target
        current_idx == Position(collected, installed_path)
        current == IF current_idx # 0 THEN collected[current_idx] ELSE NoDll
    IN  [current |-> current,
         all_dlls |-> sort_and_filter_duplicates(collected, current_idx)]

(***************************************************************************)
(* Initial states                                                          *)
(***************************************************************************)
\* Names a directory starts with: the installed path and the deterministic
\* backup names; suffixed backup names come from installs.
BackupNames ==
    {TargetName(c) \o ".dll" : c \in DllClassification}
        \cup {TargetName(c) \o "." \o s \o ".dll" :
                c \in DllClassification, s \in RandomSuffixes}

InitNames == {Target} \cup BackupNames

\* What a file of that name holds: anything at the installed path, and under
\* a backup name a build that unique_name_for_dll gives that name.
InitContents(name) ==
    {Whole(c) : c \in {k \in DllClassification :
                        \/ name = Target
                        \/ name = TargetName(k) \o ".dll"
                        \/ \E s \in RandomSuffixes :
                              name = TargetName(k) \o "." \o s \o ".dll"}}

\* the directories whose files are exactly the names S
RECURSIVE DirsOver(_)
DirsOver(S) ==
    IF S = {} THEN {<<>>}
    ELSE LET n == CHOOSE m \in S : TRUE
         IN  {Put(d, n, c) : d \in DirsOver(S \ {n}), c \in InitContents(n)}

Dirs(names, max) ==
    UNION {DirsOver(S) : S \in {T \in SUBSET names : Cardinality(T) <= max}}

\* Under SpecScan a directory holds any builds under any names.  A scan
\* compares a path with the installed path only, and the order of the
\* collected entries is drawn separately, so the files beside the installed
\* one are laid out in one canonical way: under the names OtherName(1),
\* OtherName(2), ... in ascending ClassificationIndex.
OtherName(i) == "Assembly-CSharp." \o ToString(i) \o ".dll"

ClassificationIndex(c) ==
    CASE c.tag = "Invalid" -> 0
      [] c.tag = "NonDe" -> 1
      [] c.tag = "Vanilla" -> 2
      [] c.tag = "Rando" -> 3 + c.v.patch[4]
      [] c.tag = "UnknownRando" -> 4 + MaxPatch + c.hash

ScanDirsOthers(k) ==
    {d \in [{OtherName(i) : i \in 1..k} -> {Whole(c) : c \in DllClassification}] :
        \A i \in 1..(k - 1) :
            ClassificationIndex(d[OtherName(i)].cls)
                <= ClassificationIndex(d[OtherName(i + 1)].cls)}

ScanDirs ==
    UNION {ScanDirsOthers(k) \cup
             {Put(d, Target, Whole(c)) :
                d \in ScanDirsOthers(k - 1), c \in DllClassification} :
           k \in 1..MaxScanFiles}

NoScan ==
    [ok |-> FALSE, current |-> NoDll, all_dlls |-> <<>>, of |-> <<>>,
     failed |-> {}]

(***************************************************************************)
(* Buffers given to parse_dll and classify_dll (under SpecDll): a small    *)
(* well-formed image with one section and the streams #~, #Strings and     *)
(* #US, over a choice of heaps; that image with one header field replaced; *)
(* and its prefixes.                                                       *)
(***************************************************************************)
Zeros(n) == [i \in 1..n |-> 0]

LE16(n) == <<n % 256, n \div 256>>
LE32(n) == LE16(n % 65536) \o LE16(n \div 65536)

DosHeader == <<77, 90>> \o Zeros(58) \o LE32(64)

CoffHeader ==
    <<80, 69, 0, 0>> \o LE16(332) \o LE16(1) \o Zeros(12) \o LE16(224)
        \o LE16(8450)

OptionalHeader == LE16(267) \o Zeros(206) \o LE32(8192) \o LE32(72) \o Zeros(8)

SectionEntry(section_len) ==
    <<46, 116, 101, 120, 116, 0, 0, 0>> \o LE32(section_len) \o LE32(8192)
        \o LE32(section_len) \o LE32(352) \o Zeros(16)

CliHeader(metadata_len) ==
    LE32(72) \o LE16(2) \o LE16(5) \o LE32(8264) \o LE32(metadata_len)
        \o Zeros(56)

Metadata(strings, us) ==
    <<66, 83, 74, 66>> \o LE16(1) \o LE16(1) \o Zeros(4) \o LE32(12)
        \o <<118, 52, 46, 48, 46, 51, 48, 51, 49, 57, 0, 0>>
        \o LE16(0) \o LE16(3)
        \o LE32(76) \o LE32(4) \o <<35, 126, 0, 0>>
        \o LE32(80) \o LE32(Len(strings))
        \o <<35, 83, 116, 114, 105, 110, 103, 115, 0, 0, 0, 0>>
        \o LE32(80 + Len(strings)) \o LE32(Len(us)) \o <<35, 85, 83, 0>>
        \o Zeros(4) \o strings \o us

Image(strings, us, overlay) ==
    LET metadata == Metadata(strings, us)
    IN  DosHeader \o CoffHeader \o OptionalHeader
            \o SectionEntry(72 + Len(metadata))
            \o CliHeader(Len(metadata)) \o metadata \o overlay

RECURSIVE Concat(_)
Concat(seqs) == IF seqs = <<>> THEN <<>> ELSE Head(seqs) \o Concat(Tail(seqs))

\* #Strings heaps: the empty name, then names that hold or miss the markers
StringsHeaps ==
    {<<0>> \o Concat(names) :
        names \in {<<>>, <<DeMarker>>, <<LegacyMarker>>, <<RandoMarker>>,
                   <<LegacyMarker, DeMarker>>, <<DeMarker, RandoMarker>>,
                   <<RandoMarker, LegacyMarker>>,
                   <<RandoMarker, LegacyMarker, DeMarker>>,
                   \* Randomizers: the marker without its terminator
                   <<DeMarker, <<82, 97, 110, 100, 111, 109, 105, 122, 101,
                                 114, 115, 0>>>>,
                   \* the edition marker cut short by the end of the heap
                   <<RandoMarker, SubSeq(DeMarker, 1, 25)>>}}

\* a string of the #US heap: length prefix, UTF-16LE characters, final byte
UsString(chars, prefix_off) ==
    <<2 * Len(chars) + 1 + prefix_off>>
        \o Concat([i \in DOMAIN chars |-> <<chars[i], 0>>]) \o <<0>>

\* the characters of "{major}.{minor}.{patch}"
VersionChars(v) ==
    LET ascii(ds) == [i \in DOMAIN ds |-> 48 + ds[i]]
    IN  ascii(U64Digits(v.major)) \o <<46>> \o ascii(U64Digits(v.minor))
            \o <<46>> \o ascii(U64Digits(v.patch))

UsLiteral(v) == UsString(VersionChars(v), 0)

\* #US heaps: the empty string, then strings among which version literals
UsHeaps ==
    {<<0>>, <<0>> \o UsString(<<79, 114, 105>>, 0)}
        \cup {<<0>> \o UsLiteral(v) : v \in Versions}
        \cup {<<0>> \o UsString(VersionChars(v), 2) : v \in Versions}

\* bytes after the last section
Overlays == {[i \in 1..n |-> 204] : n \in 0..MaxOverlay}

Patch(image, off, bytes) ==
    [i \in DOMAIN image |->
        IF i - 1 \in off..(off + Len(bytes) - 1) THEN bytes[i - off] ELSE image[i]]

\* file offsets of the u32 fields and of the u16 fields parse_dll reads
Fields32 == {60, 296, 320, 324, 328, 332, 360, 436, 456, 460, 468, 472, 488, 492}
Fields16 == {70, 84, 454}

Words32 ==
    {U32(0, 0), U32(0, 1), U32(0, 4), U32(0, 352), U32(0, 8200),
     U32(0, 65535), U32(1, 0), U32(32768, 0), U32(65535, 65532),
     U32(65535, 65533), U32(65535, 65535)}
Words16 == {0, 2, 212, 65535}

\* Version literals as a compiler writes them, each with the version it
\* denotes (none where a component exceeds u64::MAX = 18446744073709551615).
U64Max == <<65535, 65535, 65535, 65535>>

VersionTexts ==
    {[major |-> <<1>>, minor |-> <<0>>, patch |-> <<0>>,
      v |-> Some(RandoVersion(U64(1), U64(0), U64(0)))],
     [major |-> <<2>>, minor |-> <<3>>, patch |-> <<1>>,
      v |-> Some(RandoVersion(U64(2), U64(3), U64(1)))],
     [major |-> <<0, 1>>, minor |-> <<1, 0>>, patch |-> <<2>>,
      v |-> Some(RandoVersion(U64(1), U64(10), U64(2)))],
     [major |-> <<1, 8, 4, 4, 6, 7, 4, 4, 0, 7, 3, 7, 0, 9, 5, 5, 1, 6, 1, 5>>,
      minor |-> <<0>>, patch |-> <<0>>,
      v |-> Some(RandoVersion(U64Max, U64(0), U64(0)))],
     [major |-> <<1, 8, 4, 4, 6, 7, 4, 4, 0, 7, 3, 7, 0, 9, 5, 5, 1, 6, 1, 6>>,
      minor |-> <<0>>, patch |-> <<0>>, v |-> None],
     [major |-> <<3>>, minor |-> <<0>>,
      patch |-> <<9, 9, 9, 9, 9, 9, 9, 9, 9, 9, 9, 9, 9, 9, 9, 9, 9, 9, 9, 9, 9>>,
      v |-> None]}
        \cup {[major |-> U64Digits(v.major), minor |-> U64Digits(v.minor),
                patch |-> U64Digits(v.patch), v |-> Some(v)] : v \in Versions}

\* the characters of a text
TextChars(t) ==
    LET ascii(ds) == [i \in DOMAIN ds |-> 48 + ds[i]]
    IN  ascii(t.major) \o <<46>> \o ascii(t.minor) \o <<46>> \o ascii(t.patch)

\* the literal of a text in the #US heap
TextLiteral(t) == UsString(TextChars(t), 0)

SmallText == CHOOSE t \in VersionTexts : TextChars(t) = <<49, 46, 48, 46, 48>>

\* What a #US heap is built from: the literals of the texts; the small one
\* with a length prefix too large or too small, and with a final byte that
\* is not NUL; another string; a lone digit character.
UsPieces ==
    {TextLiteral(t) : t \in VersionTexts}
        \cup {UsString(TextChars(SmallText), 2),
              UsString(TextChars(SmallText), -2),
              SubSeq(TextLiteral(SmallText), 1, 11) \o <<1>>,
              UsString(<<79, 114, 105>>, 0),
              <<49, 0>>}

RECURSIVE PieceHeaps(_)
PieceHeaps(n) ==
    IF n = 0 THEN {<<0>>}
    ELSE PieceHeaps(n - 1)
            \cup {h \o p : h \in PieceHeaps(n - 1), p \in UsPieces}

\* Stream directories: the names of the streams in directory order, with
\* a placement of their byte ranges in the metadata root.
NameTilde == <<35, 126>>
NameStrings == <<35, 83, 116, 114, 105, 110, 103, 115>>
NameUS == <<35, 85, 83>>
NameGuid == <<35, 71, 85, 73, 68>>

StreamNameLists ==
    {<<NameTilde, NameStrings, NameUS>>,
     <<NameUS, NameStrings>>,
     <<NameStrings, NameUS, NameGuid>>,
     <<NameTilde, NameStrings>>,
     <<NameTilde, NameUS>>,
     <<>>,
     <<NameTilde>>,
     \* names that only begin like, or are begun by, the two names
     <<SubSeq(NameStrings, 1, 7), NameUS>>,
     <<NameStrings, NameUS \o <<88>>>>,
     <<NameStrings, <<35, 85, 115>>>>,
     <<NameUS \o <<88>>, NameStrings \o <<50>>, NameStrings, NameUS>>,
     <<<<>>, NameStrings, NameUS>>,
     \* a name twice
     <<NameStrings, NameUS, NameUS>>,
     <<NameStrings, NameStrings, NameUS>>}

Placements == {"consecutive", "in_header", "at_end", "first_beyond_end"}

\* one entry of the stream directory
StreamHeader(offset, size, name) ==
    LET n == Len(name) + 1
    IN  LE32(offset) \o LE32(size) \o name
            \o Zeros(NextMultipleOf4(n) - Len(name))

StreamHeadersLen(names) ==
    Len(Concat([i \in DOMAIN names |-> StreamHeader(0, 0, names[i])]))

\* the metadata root of a layout is 32 bytes of header, the directory, and
\* 4 * (number of streams) + 4 bytes of heap data
LayoutLen(names) == 32 + StreamHeadersLen(names) + 4 * Len(names) + 4

\* the [offset, offset + size) the directory declares for stream i
Declared(names, placement, i) ==
    CASE placement = "consecutive" ->
            [offset |-> 32 + StreamHeadersLen(names) + 4 * (i - 1), size |-> 4]
      [] placement = "in_header" ->
            [offset |-> 4 * (Len(names) - i), size |-> 4 * i]
      [] placement = "at_end" ->
            [offset |-> LayoutLen(names), size |-> 0]
      [] placement = "first_beyond_end" ->
            IF i = 1 THEN [offset |-> LayoutLen(names), size |-> 4]
            ELSE [offset |-> 32 + StreamHeadersLen(names), size |-> 4]

StreamLayouts ==
    {[names |-> names, placement |-> placement] :
        names \in StreamNameLists, placement \in Placements}

LayoutMetadata(l) ==
    <<66, 83, 74, 66>> \o LE16(1) \o LE16(1) \o Zeros(4) \o LE32(12)
        \o <<118, 52, 46, 48, 46, 51, 48, 51, 49, 57, 0, 0>>
        \o LE16(0) \o LE16(Len(l.names))
        \o Concat([i \in DOMAIN l.names |->
                     StreamHeader(Declared(l.names, l.placement, i).offset,
                                  Declared(l.names, l.placement, i).size,
                                  l.names[i])])
        \o [k \in 1..(4 * Len(l.names) + 4) |-> 160 + k]

LayoutImage(l) ==
    LET metadata == LayoutMetadata(l)
    IN  DosHeader \o CoffHeader \o OptionalHeader
            \o SectionEntry(72 + Len(metadata))
            \o CliHeader(Len(metadata)) \o metadata

\* where the metadata root of these images starts in the file
MetadataStart ==
    Len(DosHeader \o CoffHeader \o OptionalHeader \o SectionEntry(0)
            \o CliHeader(0))

\* the images of the layouts, each with its layout
LayoutImages == {[image |-> LayoutImage(l), layout |-> l] : l \in StreamLayouts}

BaseImage == Image(<<0>> \o DeMarker \o RandoMarker, <<0>> \o UsLiteral(RandoVersion(U64(1), U64(0), U64(0))), <<>>)

\* An image whose headers follow its one section in the file, cut after
\* the last field of the section entry parse_dll reads.
TailHeaderImage ==
    LET metadata == Metadata(<<0>> \o DeMarker, <<0>>)
        section_len == 72 + Len(metadata)
    IN  <<77, 90>> \o Zeros(58) \o LE32(64 + section_len)
            \o CliHeader(Len(metadata)) \o metadata
            \o CoffHeader \o OptionalHeader
            \o <<46, 116, 101, 120, 116, 0, 0, 0>> \o LE32(section_len)
            \o LE32(8192) \o LE32(section_len) \o LE32(64)

\* Images that hold no byte beyond those parse_dll depends on: the file
\* ends with the section (or with the last field read of the section
\* table), and the section ends with the metadata root.
MinimalImages ==
    {BaseImage, TailHeaderImage,
     LayoutImage([names |-> <<NameTilde, NameStrings, NameUS>>,
                  placement |-> "consecutive"]),
     LayoutImage([names |-> <<NameUS, NameStrings>>,
                  placement |-> "in_header"])}

\* Images with a section table of two entries.  The section data (the CLI
\* header, then the metadata root) follows the table at file offset 392;
\* an entry gives a virtual range and a file range.
SectionDataStart == 392

TwoSectionData ==
    LET metadata == Metadata(<<0>> \o DeMarker \o RandoMarker,
                             <<0>> \o UsLiteral(RandoVersion(U64(1), U64(0), U64(0))))
    IN  CliHeader(Len(metadata)) \o metadata

SectionEntryOf(e) ==
    <<46, 116, 101, 120, 116, 0, 0, 0>> \o LE32(e.virtual_size)
        \o LE32(e.virtual_start) \o LE32(e.file_size) \o LE32(e.file_start)
        \o Zeros(16)

\* the section that holds the data; sections of the same virtual range
\* backed by the DOS header, by the first 4 or 8 bytes of the data, or with
\* an empty virtual range; a section below all of them
SectionEntries ==
    LET len == Len(TwoSectionData)
        entry(vs, vz, fs, fz) ==
            [virtual_start |-> vs, virtual_size |-> vz,
             file_start |-> fs, file_size |-> fz]
    IN  {entry(8192, len, SectionDataStart, len),
         entry(8192, len, 0, 64),
         entry(8192, len, SectionDataStart, 4),
         entry(8192, len, SectionDataStart, 8),
         entry(8192, 0, SectionDataStart, len),
         entry(4096, 16, 0, 16)}

\* RVAs of the CLI header: the start of the range at 8192, 8 bytes into
\* it, its end, and an address in the section below
CliHeaderRvas == {8192, 8200, 8192 + Len(TwoSectionData), 4100}

TwoSectionImage(first, second, cli_header_rva) ==
    DosHeader
        \o <<80, 69, 0, 0>> \o LE16(332) \o LE16(2) \o Zeros(12) \o LE16(224)
        \o LE16(8450)
        \o LE16(267) \o Zeros(206) \o LE32(cli_header_rva) \o LE32(72)
        \o Zeros(8)
        \o SectionEntryOf(first) \o SectionEntryOf(second)
        \o TwoSectionData

TwoSectionImages ==
    {TwoSectionImage(first, second, rva) :
        first \in SectionEntries, second \in SectionEntries,
        rva \in CliHeaderRvas}

Images ==
    {Image(s, u, o) : s \in StringsHeaps, u \in UsHeaps, o \in Overlays}
        \cup {Image(<<0>> \o DeMarker \o RandoMarker, u, <<>>) :
                u \in PieceHeaps(MaxPieces)}
        \cup {Patch(BaseImage, f, LE16(w.lo) \o LE16(w.hi)) :
                f \in Fields32, w \in Words32}
        \cup {Patch(BaseImage, f, LE16(w)) : f \in Fields16, w \in Words16}
        \cup {SubSeq(BaseImage, 1, n) : n \in 0..Len(BaseImage)}
        \cup {e.image : e \in LayoutImages}
        \cup UNION {{SubSeq(m, 1, n) : n \in 0..Len(m)} : m \in MinimalImages}
        \cup TwoSectionImages

(***************************************************************************)
(* The front end: Inner, run_off_thread and its handlers.  Every handler   *)
(* runs with the Mutex around Inner held; the calc closure of a worker     *)
(* runs on its own thread without it.                                      *)
(***************************************************************************)
Checking == [tag |-> "Checking"]
InstalledNone == [tag |-> "None"]
InstalledUnknown == [tag |-> "InstalledUnknown"]
Installed(v) == [tag |-> "Installed", v |-> v]
NewestError == [tag |-> "Error"]
NewestVersion(v) == [tag |-> "Version", v |-> v]

\* settings.game_dir: one of two game installations, or not set
GameDirs == {"A", "B"}
Unset == "unset"

\* A spawned thread: the closure it runs, what the closure captured (the
\* game directory, the version, the catalog), where it is (running calc, or
\* done with calc and about to lock and sync), and the value calc returned.
\* The paths of a catalog's entries lie in the directory that was scanned;
\* the model keeps a path as the file name and that directory beside the
\* catalog (catalog_dir).
Worker(kind, game_dir, version, all_dlls, catalog_dir) ==
    [kind |-> kind, game_dir |-> game_dir, version |-> version,
     all_dlls |-> all_dlls, catalog_dir |-> catalog_dir,
     phase |-> "calc", value |-> None]

FreeIds(w) == (1..MaxWorkers) \ DOMAIN w

\* thread::spawn: one more thread, under the smallest unused identifier
run_off_thread(w, worker) ==
    LET id == CHOOSE i \in FreeIds(w) : \A j \in FreeIds(w) : i <= j
    IN  [i \in DOMAIN w \cup {id} |-> IF i = id THEN worker ELSE w[i]]

Ended(w, id) == [i \in DOMAIN w \ {id} |-> w[i]]

Handled(a, w) == [app |-> a, workers |-> w]

\* update_dlls up to the spawn
update_dlls(a, w) ==
    IF a.game_dir = Unset THEN Handled(a, w)
    ELSE IF a.newest_version_installed = Checking THEN Handled(a, w)
    ELSE Handled([a EXCEPT !.newest_version_installed = Checking],
                 run_off_thread(w, Worker("update_dlls", a.game_dir, NoDll,
                                          <<>>, Unset)))

\* mutant: switch_to_version without the modal_message check
switch_to_version_unchecked(a, w, version) ==
    Handled([a EXCEPT !.modal_message = Some("Switching version...")],
            run_off_thread(w, Worker("switch_to_version", a.game_dir, version,
                                     a.all_dlls, a.catalog_dir)))

\* switch_to_version up to the spawn
switch_to_version(a, w, version) ==
    IF a.modal_message # None THEN Handled(a, w)
    ELSE Handled([a EXCEPT !.modal_message = Some("Switching version...")],
                 run_off_thread(w, Worker("switch_to_version", a.game_dir,
                                          version, a.all_dlls, a.catalog_dir)))

\* download_update up to the spawn
download_update(a, w) ==
    IF a.modal_message # None THEN Handled(a, w)
    ELSE Handled([a EXCEPT !.modal_message = Some("Installing Randomizer...")],
                 run_off_thread(w, Worker("download_update", a.game_dir,
                                          NoDll, a.all_dlls, a.catalog_dir)))

different_version(new, old) ==
    IF new = NoDll THEN FALSE
    ELSE IF old = NoDll THEN TRUE
    ELSE new.kind # old.kind

\* the newest installed state update_dlls' calc derives from the catalog
RandoVersionsOf(all) ==
    {all[i].kind.v : i \in {j \in DOMAIN all : all[j].kind.tag = "Rando"}}

Newest(all) ==
    IF RandoVersionsOf(all) # {}
    THEN Installed(CHOOSE v \in RandoVersionsOf(all) :
                     \A u \in RandoVersionsOf(all) : ~VersionLess(v, u))
    ELSE IF \E i \in DOMAIN all : all[i].kind.tag = "UnknownRando"
    THEN InstalledUnknown
    ELSE InstalledNone

\* The sync closures, run on the worker's thread with Inner locked
update_dlls_sync(a, w, dlls) ==
    IF ~dlls.some
    THEN Handled([a EXCEPT !.newest_version_installed = InstalledNone,
                           !.error_message =
                               Some("Failed to load installed versions")], w)
    ELSE Handled([a EXCEPT !.current_dll = dlls.v.current,
                           !.all_dlls = dlls.v.all,
                           !.catalog_dir = dlls.v.game_dir,
                           !.newest_version_installed = dlls.v.newest], w)

switch_to_version_sync(a, w, errored) ==
    LET u == update_dlls([a EXCEPT !.modal_message = None], w)
    IN  Handled(IF errored
                THEN [u.app EXCEPT !.error_message =
                                       Some("Failed to switch version")]
                ELSE u.app,
                u.workers)

\* mutant: the completion handler of a download starts no rescan
download_update_sync_no_rescan(a, w, res) ==
    Handled([a EXCEPT !.error_message =
                          IF res.ok THEN @ ELSE Some("Failed to "),
                      !.modal_message = None], w)

download_update_sync(a, w, res) ==
    update_dlls([a EXCEPT !.error_message =
                              IF res.ok THEN @ ELSE Some("Failed to "),
                          !.modal_message = None], w)

check_newest_sync(a, w, newest) ==
    Handled([a EXCEPT !.newest_version_available = newest], w)

\* Inner as App::new leaves it: update_dlls and check_newest have spawned
\* their threads.
NewInner ==
    [alive |-> TRUE, game_dir |-> "A", current_dll |-> NoDll,
     all_dlls |-> <<>>, catalog_dir |-> Unset,
     newest_version_installed |-> Checking,
     newest_version_available |-> Checking,
     modal_message |-> None, error_message |-> None]

NewWorkers ==
    run_off_thread(run_off_thread(<<>>, Worker("update_dlls", "A", NoDll,
                                               <<>>, Unset)),
                   Worker("check_newest", Unset, NoDll, <<>>, Unset))

\* no front end
NoGui ==
    /\ app = [alive |-> FALSE]
    /\ workers = <<>>
    /\ other_dir = <<>>

NoBuffer ==
    /\ buffer = <<>>
    /\ overflow_checks_on = FALSE
    /\ result = [op |-> "none"]

Init ==
    /\ dir \in Dirs(InitNames, MaxInitFiles)
    /\ scan = NoScan
    /\ last = [op |-> "none"]
    /\ installs = 0
    /\ NoBuffer
    /\ NoGui

InitScan ==
    /\ dir \in ScanDirs
    /\ scan = NoScan
    /\ last = [op |-> "none"]
    /\ installs = 0
    /\ NoBuffer
    /\ NoGui

InitDll ==
    /\ dir = <<>>
    /\ scan = NoScan
    /\ last = [op |-> "none"]
    /\ installs = 0
    /\ buffer \in Images
    /\ overflow_checks_on \in BOOLEAN
    /\ result = [op |-> "none"]
    /\ NoGui

(***************************************************************************)
(* Actions                                                                 *)
(***************************************************************************)
\* search_game_dir succeeds: some files may fail to classify, the rest are
\* collected in some order.  (A scan changes nothing in the directory: a
\* scan right after a scan draws from the same results and is not explored.)
Scan ==
    /\ installs < MaxInstalls
    /\ last.op # "scan"
    /\ \E failed \in SUBSET DOMAIN dir :
        /\ Cardinality(failed) <= MaxScanErrors
        /\ \E collected \in Orders(Classified(dir, failed)) :
            LET r == search_game_dir(collected)
            IN  /\ scan' = [ok |-> TRUE, current |-> r.current,
                            all_dlls |-> r.all_dlls, of |-> dir,
                            failed |-> failed]
                /\ last' = [op |-> "scan"]
    /\ UNCHANGED <<dir, installs>>
    /\ UNCHANGED dllvars
    /\ UNCHANGED guivars

\* read_dir fails, or listing one entry does: search_game_dir returns Err
ScanFails ==
    /\ installs < MaxInstalls
    /\ last.op # "scan"
    /\ scan' = NoScan
    /\ last' = [op |-> "scan"]
    /\ UNCHANGED <<dir, installs>>
    /\ UNCHANGED dllvars
    /\ UNCHANGED guivars

Record(op, source, r) ==
    [op |-> op, source |-> source, pre |-> dir, all_dlls |-> scan.all_dlls,
     fresh |-> (scan.of = dir), ok |-> r.ok, step |-> r.step,
     copied |-> r.copied, classified |-> r.classified,
     new_name |-> r.new_name, exists_err |-> r.exists_err]

\* The classification of the bytes to_install.path holds (any, if it is gone)
SourceClassification(d, to_install) ==
    IF to_install.path \in DOMAIN d THEN d[to_install.path].cls
    ELSE to_install.kind

\* The builds a download supplies.
NewDlls ==
    {Whole(Rando(RandoVersion(U64(1), U64(0), U64(MaxPatch)))), Whole(UnknownRando(MaxHash)),
     Whole(Invalid)}

InstallDll ==
    /\ installs < MaxInstalls
    /\ scan.ok
    /\ \E i \in DOMAIN scan.all_dlls :
        \E io \in IoChoices(SourceClassification(dir, scan.all_dlls[i])) :
            LET to_install == scan.all_dlls[i]
                r == install_dll(dir, to_install, scan.all_dlls, io)
            IN  /\ dir' = r.dir
                /\ last' = Record("install_dll", to_install, r)
    /\ installs' = installs + 1
    /\ UNCHANGED scan
    /\ UNCHANGED dllvars
    /\ UNCHANGED guivars

InstallNewDll ==
    /\ installs < MaxInstalls
    /\ scan.ok
    /\ \E dll \in NewDlls :
        \E io \in IoChoices(dll.cls) :
            LET r == install_new_dll(dir, dll, scan.all_dlls, io)
            IN  /\ dir' = r.dir
                /\ last' = Record("install_new_dll", dll, r)
    /\ installs' = installs + 1
    /\ UNCHANGED scan
    /\ UNCHANGED dllvars
    /\ UNCHANGED guivars

Next == Scan \/ ScanFails \/ InstallDll \/ InstallNewDll

Spec == Init /\ [][Next]_vars

NextScan == Scan \/ ScanFails

SpecScan == InitScan /\ [][NextScan]_vars

\* parse_dll(&buffer)
ParseDll ==
    /\ result.op = "none"
    /\ result' = [op |-> "parse_dll",
                  value |-> parse_dll(buffer, overflow_checks_on)]
    /\ UNCHANGED <<buffer, overflow_checks_on>>
    /\ UNCHANGED fsvars
    /\ UNCHANGED guivars

\* classify_dll(&buffer)
ClassifyDll ==
    /\ result.op = "none"
    /\ result' = [op |-> "classify_dll",
                  value |-> classify_dll(buffer, overflow_checks_on)]
    /\ UNCHANGED <<buffer, overflow_checks_on>>
    /\ UNCHANGED fsvars
    /\ UNCHANGED guivars

NextDll == ParseDll \/ ClassifyDll

SpecDll == InitDll /\ [][NextDll]_vars

(***************************************************************************)
(* The front end's actions                                                 *)
(***************************************************************************)
\* the second installation holds the vanilla build
SecondDir == Put(<<>>, Target, Whole(Vanilla))

InitGui ==
    /\ dir \in Dirs(InitNames, MaxGuiFiles)
    /\ scan = NoScan
    /\ last = [op |-> "none"]
    /\ installs = 0
    /\ NoBuffer
    /\ app = NewInner
    /\ workers = NewWorkers
    /\ other_dir = SecondDir

Handle(h) ==
    /\ app' = h.app
    /\ workers' = h.workers

Calc(id, value) ==
    workers' = [workers EXCEPT ![id].phase = "sync", ![id].value = value]

Running(kind) ==
    {id \in DOMAIN workers :
        workers[id].kind = kind /\ workers[id].phase = "calc"}

\* the managed directory of a game directory
DirOf(game_dir) == IF game_dir = "A" THEN dir ELSE other_dir

\* an install leaves d in the managed directory of game_dir
Leaves(game_dir, d) ==
    IF game_dir = "A" THEN dir' = d /\ UNCHANGED other_dir
    ELSE other_dir' = d /\ UNCHANGED dir

\* The entries of a catalog of another directory: no path of theirs is the
\* target path of this one.
Foreign(all_dlls, catalog_dir) ==
    [i \in DOMAIN all_dlls |->
        [all_dlls[i] EXCEPT !.path = "../" \o catalog_dir \o "/" \o @]]

\* install_dll into the directory d with a version and a catalog of the
\* directory source_dir
install_dll_across(d, source_dir, to_install, all_dlls, catalog_dir, io) ==
    LET p == prepare_target(d, Foreign(all_dlls, catalog_dir), io)
    IN  IF ~p.ok THEN InstallResult(p, FALSE, p.dir, FALSE)
        ELSE IF to_install.path \notin DOMAIN source_dir
        THEN InstallResult(p, FALSE, p.dir, TRUE)
        ELSE LET r == fs_write(p.dir, Target, source_dir[to_install.path],
                               io.write)
             IN  InstallResult(p, r.ok, r.dir, TRUE)

\* The user picks an entry of the version selector, which draw_rando_version
\* shows when a randomizer build is installed.
SwitchToVersion ==
    /\ app.alive
    /\ app.game_dir # Unset
    /\ app.newest_version_installed.tag \in {"InstalledUnknown", "Installed"}
    /\ installs < MaxInstalls
    /\ FreeIds(workers) # {}
    /\ \E i \in DOMAIN app.all_dlls :
        /\ different_version(app.all_dlls[i], app.current_dll)
        /\ Handle(switch_to_version(app, workers, app.all_dlls[i]))
    /\ UNCHANGED <<fsvars, dllvars, other_dir>>

\* The user clicks the install/update button, which draw_rando_version
\* shows when no randomizer build is installed and draw_update_line when
\* the newest version available is not the newest installed.
DownloadUpdate ==
    /\ app.alive
    /\ app.game_dir # Unset
    /\ \/ app.newest_version_installed = InstalledNone
       \/ /\ app.newest_version_installed.tag = "Installed"
          /\ app.newest_version_available.tag = "Version"
          /\ app.newest_version_available.v # app.newest_version_installed.v
    /\ installs < MaxInstalls
    /\ FreeIds(workers) # {}
    /\ Handle(download_update(app, workers))
    /\ UNCHANGED <<fsvars, dllvars, other_dir>>

\* The user closes the error modal.
DismissError ==
    /\ app.alive
    /\ app.error_message # None
    /\ app' = [app EXCEPT !.error_message = None]
    /\ UNCHANGED <<workers, fsvars, dllvars, other_dir>>

\* The window closes and App is dropped: Weak::upgrade fails from now on.
Close ==
    /\ app.alive
    /\ app' = [app EXCEPT !.alive = FALSE]
    /\ UNCHANGED <<workers, fsvars, dllvars, other_dir>>

\* "Choose...": the user picks a folder that verify_game_dir accepts (the
\* file dialog runs in the handler, with Inner locked)
ChooseGameDir ==
    /\ app.alive
    /\ FreeIds(workers) # {}
    /\ \E picked \in GameDirs :
        Handle(update_dlls([app EXCEPT !.game_dir = picked], workers))
    /\ UNCHANGED <<fsvars, dllvars, other_dir>>

\* "Auto-Detect": search_for_game_dir().unwrap_or_default()
AutoDetect ==
    /\ app.alive
    /\ app.game_dir # Unset
    /\ FreeIds(workers) # {}
    /\ \E found \in GameDirs \cup {Unset} :
        Handle(update_dlls([app EXCEPT !.game_dir = found], workers))
    /\ UNCHANGED <<fsvars, dllvars, other_dir>>

\* calc of update_dlls: search_game_dir succeeds or fails
CalcUpdateDlls ==
    /\ \E id \in Running("update_dlls") :
        LET d == DirOf(workers[id].game_dir)
        IN  \/ Calc(id, None)
            \/ \E failed \in SUBSET DOMAIN d :
                /\ Cardinality(failed) <= MaxScanErrors
                /\ \E collected \in Orders(Classified(d, failed)) :
                    LET r == search_game_dir(collected)
                    IN  Calc(id, Some([current |-> r.current,
                                       all |-> r.all_dlls,
                                       newest |-> Newest(r.all_dlls),
                                       game_dir |-> workers[id].game_dir]))
    /\ UNCHANGED <<app, fsvars, dllvars, other_dir>>

\* calc of switch_to_version: install_dll
CalcSwitchToVersion ==
    /\ \E id \in Running("switch_to_version") :
        LET w == workers[id]
            source_dir == DirOf(w.catalog_dir)
        IN  \E io \in IoChoices(SourceClassification(source_dir, w.version)) :
                LET r == IF w.catalog_dir = w.game_dir
                         THEN install_dll(DirOf(w.game_dir), w.version,
                                          w.all_dlls, io)
                         ELSE install_dll_across(DirOf(w.game_dir), source_dir,
                                                 w.version, w.all_dlls,
                                                 w.catalog_dir, io)
                IN  /\ Leaves(w.game_dir, r.dir)
                    /\ Calc(id, ~r.ok)
    /\ installs' = installs + 1
    /\ UNCHANGED <<app, scan, last, dllvars>>

\* calc of download_update: download_dll fails, or install_new_dll runs
CalcDownloadUpdate ==
    /\ \E id \in Running("download_update") :
        LET w == workers[id]
        IN  \/ /\ Calc(id, [ok |-> FALSE])
               /\ UNCHANGED <<dir, other_dir>>
            \/ \E dll \in NewDlls :
                \E io \in IoChoices(dll.cls) :
                    LET all_dlls == IF w.catalog_dir = w.game_dir THEN w.all_dlls
                                    ELSE Foreign(w.all_dlls, w.catalog_dir)
                        r == install_new_dll(DirOf(w.game_dir), dll, all_dlls, io)
                    IN  /\ Leaves(w.game_dir, r.dir)
                        /\ Calc(id, [ok |-> r.ok])
    /\ installs' = installs + 1
    /\ UNCHANGED <<app, scan, last, dllvars>>

\* calc of check_newest: check_version
CalcCheckNewest ==
    /\ \E id \in Running("check_newest") :
        \E newest \in {NewestError} \cup {NewestVersion(v) : v \in Versions} :
            Calc(id, newest)
    /\ UNCHANGED <<app, fsvars, dllvars, other_dir>>

\* The thread is done with calc: it upgrades weak_self, locks Inner and
\* runs sync, or finds the App gone; then it ends.
Sync ==
    /\ \E id \in DOMAIN workers :
        LET w == workers[id]
            rest == Ended(workers, id)
        IN  /\ w.phase = "sync"
            /\ IF ~app.alive THEN Handle(Handled(app, rest))
               ELSE CASE w.kind = "update_dlls" ->
                            Handle(update_dlls_sync(app, rest, w.value))
                      [] w.kind = "switch_to_version" ->
                            Handle(switch_to_version_sync(app, rest, w.value))
                      [] w.kind = "download_update" ->
                            Handle(download_update_sync(app, rest, w.value))
                      [] w.kind = "check_newest" ->
                            Handle(check_newest_sync(app, rest, w.value))
    /\ UNCHANGED <<fsvars, dllvars, other_dir>>

\* the front end with the game directory left as it is
NextGui ==
    \/ SwitchToVersion
    \/ DownloadUpdate
    \/ DismissError
    \/ Close
    \/ CalcUpdateDlls
    \/ CalcSwitchToVersion
    \/ CalcDownloadUpdate
    \/ CalcCheckNewest
    \/ Sync

SpecGui == InitGui /\ [][NextGui]_vars

\* the front end with changes of the game directory, with a window that
\* stays open and error modals that stay up, started on an installation
\* whose managed directory holds a backup of the vanilla build and one of a
\* randomizer build, and nothing at the target path
InitGuiDirs ==
    /\ scan = NoScan
    /\ last = [op |-> "none"]
    /\ installs = 0
    /\ NoBuffer
    /\ app = NewInner
    /\ workers = NewWorkers
    /\ other_dir = SecondDir
    /\ dir = Put(Put(<<>>, TargetName(Vanilla) \o ".dll", Whole(Vanilla)),
                 TargetName(Rando(RandoVersion(U64(1), U64(0), U64(0))))
                    \o ".dll",
                 Whole(Rando(RandoVersion(U64(1), U64(0), U64(0)))))

NextGuiDirs ==
    \/ SwitchToVersion
    \/ DownloadUpdate
    \/ ChooseGameDir
    \/ AutoDetect
    \/ CalcUpdateDlls
    \/ CalcSwitchToVersion
    \/ CalcDownloadUpdate
    \/ CalcCheckNewest
    \/ Sync

SpecGuiDirs == InitGuiDirs /\ [][NextGuiDirs]_vars

(***************************************************************************)
(* Properties of installs (under Spec)                                     *)
(***************************************************************************)
IsInstall == last.op \in {"install_dll", "install_new_dll"}

Eligible(c) == c.tag \in {"Vanilla", "Rando", "UnknownRando"}

\* the catalog-eligible build identities the files of d have
Identities(d) == {d[n].cls : n \in {m \in DOMAIN d : Eligible(d[m].cls)}}

\* the rename to the backup name was issued / was carried out
RenameIssued == IsInstall /\ last.new_name # NoName
Renamed == RenameIssued /\ last.step # "rename"

DeterministicName(c) == TargetName(c) \o ".dll"

\* C1: an install that is given the catalog of a scan of the directory as
\* it is when the install starts loses no catalog-eligible identity: every
\* identity some file had before is the identity of some file afterwards,
\* whether the install succeeded or failed.
C1_NoIdentityLost ==
    (IsInstall /\ last.fresh) => Identities(last.pre) \subseteq Identities(dir)

\* C2: when the occupant of the target path classifies, the backup rename
\* is issued exactly when no catalog entry at another path has an identity
\* structurally equal to that classification; once carried out the occupant
\* is found under the backup name, and without it no backup file appears.
C2_BackupExactlyWhenNoCopy ==
    (IsInstall /\ last.classified.ok) =>
        LET copy_known ==
                \E i \in DOMAIN last.all_dlls :
                    /\ last.all_dlls[i].path # Target
                    /\ last.all_dlls[i].kind = last.classified.value
        IN  /\ RenameIssued <=> ~copy_known
            /\ Renamed =>
                    /\ last.new_name \in DOMAIN dir
                    /\ dir[last.new_name] = last.pre[Target]
            /\ ~RenameIssued => DOMAIN dir \subseteq DOMAIN last.pre \cup {Target}

C2_Witness ==
    /\ IsInstall /\ last.classified.ok /\ ~RenameIssued
    /\ last.ok
    /\ \E i \in DOMAIN last.all_dlls :
            /\ last.all_dlls[i].path # Target
            /\ last.all_dlls[i].kind = last.classified.value

\* C3: a classification of the occupant that fails with an error other than
\* not-found, or a failing backup rename, makes the install return an error
\* before the copy/write, and the prior occupant is still at the target
\* path with its content.
C3_AbortBeforeCopy ==
    (IsInstall /\ (last.classified = IoError \/ last.step = "rename")) =>
        /\ ~last.ok
        /\ ~last.copied
        /\ Target \in DOMAIN dir
        /\ dir[Target] = last.pre[Target]
        /\ dir = last.pre

C3_Witness ==
    /\ IsInstall /\ last.step = "rename" /\ ~last.ok
    /\ last.source # last.pre[Target]

\* C4: a copy/write that fails after the outgoing file was renamed leaves
\* the prior build under its backup name and no installed build at the
\* target path (no file, or the remains of the failed write).
C4_RecoverableAfterCopyFailure ==
    (Renamed /\ last.step = "copy") =>
        /\ ~last.ok
        /\ last.new_name \in DOMAIN dir
        /\ dir[last.new_name] = last.pre[Target]
        /\ Target \notin DOMAIN dir \/ dir[Target].torn

C4_Witness ==
    /\ Renamed /\ last.step = "copy"
    /\ Target \in DOMAIN dir /\ dir[Target].torn

\* C5: the backup rename never overwrites an existing file: it goes to the
\* deterministic name when std::fs::exists finds no file of that name, and
\* to a name with a random suffix when one exists, which is then left in
\* place with its content.
C5_BackupNeverOverwrites ==
    Renamed =>
        LET det == DeterministicName(last.classified.value)
        IN  /\ last.new_name \notin DOMAIN last.pre
            /\ (det \notin DOMAIN last.pre /\ ~last.exists_err) =>
                    last.new_name = det
            /\ det \in DOMAIN last.pre =>
                    /\ \E s \in RandomSuffixes :
                        last.new_name =
                            TargetName(last.classified.value) \o "." \o s
                                \o ".dll"
                    /\ det \in DOMAIN dir /\ dir[det] = last.pre[det]

(***************************************************************************)
(* Properties of scans (under SpecScan)                                    *)
(***************************************************************************)
\* the files of the scanned directory that opened, mapped and classified
\* as a catalog-eligible build
Found == {n \in DOMAIN scan.of \ scan.failed : Eligible(scan.of[n].cls)}

CatalogKinds == {scan.all_dlls[i].kind : i \in DOMAIN scan.all_dlls}

\* C6: the catalog holds exactly one entry per distinct catalog-eligible
\* identity among the successfully classified files: no two entries have
\* equal identities, no identity found is missing, and every entry is a
\* file that was found with that identity.
C6_OneEntryPerIdentity ==
    scan.ok =>
        /\ CatalogKinds = {scan.of[n].cls : n \in Found}
        /\ \A i, j \in DOMAIN scan.all_dlls :
                scan.all_dlls[i].kind = scan.all_dlls[j].kind => i = j
        /\ \A i \in DOMAIN scan.all_dlls :
                /\ scan.all_dlls[i].path \in Found
                /\ scan.of[scan.all_dlls[i].path].cls = scan.all_dlls[i].kind

\* five files classifying to {Vanilla, Vanilla, 1.0.0, 1.0.0, unversioned}
\* give 3 entries
C6_Witness ==
    /\ scan.ok /\ scan.failed = {}
    /\ Cardinality(DOMAIN scan.of) = 5
    /\ Cardinality({n \in DOMAIN scan.of : scan.of[n].cls = Vanilla}) = 2
    /\ Cardinality({n \in DOMAIN scan.of :
                        scan.of[n].cls =
                            Rando(RandoVersion(U64(1), U64(0), U64(0)))}) = 2
    /\ Cardinality({n \in DOMAIN scan.of :
                        scan.of[n].cls.tag = "UnknownRando"}) = 1
    /\ Len(scan.all_dlls) = 3

\* the scan found a catalog-eligible file at the installed path
CurrentFound == scan.ok /\ Target \in Found

\* another file that was found has the identity of the installed file
CurrentHasCopy ==
    \E n \in Found \ {Target} : scan.of[n].cls = scan.of[Target].cls

\* C7 as claimed: whenever a scan finds a catalog-eligible file at the
\* installed path, the catalog holds the current entry itself.
C7_CurrentIsInCatalog ==
    CurrentFound =>
        \E i \in DOMAIN scan.all_dlls : scan.all_dlls[i].path = Target

\* C7 as amended: the scan returns that file as current and the catalog
\* holds an entry of its identity, which is the current entry itself
\* exactly when no other file found has that identity.
C7_CurrentIdentityInCatalog ==
    CurrentFound =>
        /\ scan.current # NoDll
        /\ scan.current.path = Target
        /\ scan.current.kind = scan.of[Target].cls
        /\ \E i \in DOMAIN scan.all_dlls :
                /\ scan.all_dlls[i].kind = scan.current.kind
                /\ scan.all_dlls[i].path = Target <=> ~CurrentHasCopy

C7_Witness ==
    /\ CurrentFound /\ CurrentHasCopy
    /\ \E i \in DOMAIN scan.all_dlls :
            /\ scan.all_dlls[i].kind = scan.current.kind
            /\ scan.all_dlls[i].path # Target

(***************************************************************************)
(* Properties of parse_dll and classify_dll (under SpecDll)                *)
(***************************************************************************)
Parsed == parse_dll(buffer, overflow_checks_on)

StringsHeap == Bytes(buffer, Parsed.v.strings)
UsHeap == Bytes(buffer, Parsed.v.us)

InBuffer(s) == 0 <= s.off /\ 0 <= s.len /\ s.off + s.len <= Len(buffer)

Contains(haystack, needle) ==
    \E i \in 1..(Len(haystack) - Len(needle) + 1) :
        \A k \in 1..Len(needle) : haystack[i + k - 1] = needle[k]

\* C8: on every input buffer parse_dll returns without panicking, either an
\* error or two heap views, and the heap views lie inside the buffer.
C8_ParseNeverPanics ==
    result.op = "parse_dll" =>
        /\ result.value.tag \in {"Ok", "Err"}
        /\ result.value.tag = "Ok" =>
              InBuffer(result.value.v.strings) /\ InBuffer(result.value.v.us)

\* the part of C8 about the views alone
HeapsInBuffer ==
    (result.op = "parse_dll" /\ result.value.tag = "Ok") =>
        InBuffer(result.value.v.strings) /\ InBuffer(result.value.v.us)

\* C9: classify_dll gives Invalid on a parse failure; else, without the
\* edition marker in #Strings, NonDe if the legacy marker is there and
\* Invalid if not; else, without the Randomizer marker, Vanilla -- whatever
\* the legacy marker and the #US heap are.
C9_ClassifyBranchOrder ==
    result.op = "classify_dll" =>
        /\ Parsed.tag = "Err" => result.value = Invalid
        /\ (Parsed.tag = "Ok" /\ ~Contains(StringsHeap, DeMarker)) =>
              result.value =
                  IF Contains(StringsHeap, LegacyMarker) THEN NonDe ELSE Invalid
        /\ (Parsed.tag = "Ok" /\ Contains(StringsHeap, DeMarker)
                /\ ~Contains(StringsHeap, RandoMarker)) =>
              result.value = Vanilla

\* Vanilla for a buffer that holds the legacy marker and a version literal
C9_Witness ==
    /\ result.op = "classify_dll"
    /\ result.value = Vanilla
    /\ Contains(StringsHeap, LegacyMarker)
    /\ extract_rando_version(UsHeap).some

BothMarkers ==
    /\ Parsed.tag = "Ok"
    /\ Contains(StringsHeap, DeMarker)
    /\ Contains(StringsHeap, RandoMarker)

\* C10: with both markers, classify_dll gives Rando(v) when the #US heap
\* yields the version v -- the v a literal of the heap was written from --
\* and UnknownRando(h) otherwise, h the hash of the whole buffer.
C10_VersionedElseHashed ==
    (result.op = "classify_dll" /\ BothMarkers) =>
        /\ \A v \in Versions :
              UsHeap = <<0>> \o UsLiteral(v) => result.value = Rando(v)
        /\ LET v == extract_rando_version(UsHeap)
           IN  result.value =
                   IF v.some THEN Rando(v.v)
                   ELSE UnknownRando(compute_hash(buffer))

\* an unversioned build with bytes after its section, hashed with them
C10_Witness ==
    /\ result.op = "classify_dll"
    /\ BothMarkers
    /\ CapturesIter(UsHeap, 1) # <<>>
    /\ result.value.tag = "UnknownRando"
    /\ result.value.hash # compute_hash(StringsHeap \o UsHeap)
    /\ buffer[Len(buffer)] = 204

(***************************************************************************)
(* Properties of extract_rando_version (under SpecDll)                     *)
(***************************************************************************)
Classified2 == result.op = "classify_dll" /\ BothMarkers

\* the versions of the correctly length-prefixed literals the heap holds
LiteralVersions(h) ==
    {t.v.v : t \in {u \in VersionTexts : u.v.some /\ Contains(h, TextLiteral(u))}}

\* the literals of the heap whose number exceeds the u64 range
OverflowLiterals(h) ==
    {t \in VersionTexts : ~t.v.some /\ Contains(h, TextLiteral(t))}

\* a < b as decimal numbers, a and b u64
DecimalLess(a, b) ==
    LET da == U64Digits(a)
        db == U64Digits(b)
    IN  \/ Len(da) < Len(db)
        \/ /\ Len(da) = Len(db)
           /\ \E i \in 1..Len(da) :
                da[i] < db[i] /\ \A j \in 1..(i - 1) : da[j] = db[j]

\* a < b on (major, minor, patch)
LexLess(a, b) ==
    \/ DecimalLess(a.major, b.major)
    \/ a.major = b.major /\ DecimalLess(a.minor, b.minor)
    \/ a.major = b.major /\ a.minor = b.minor /\ DecimalLess(a.patch, b.patch)

\* C11: a version comes only from a candidate whose prefix byte is the
\* number of bytes after it up to and including the NUL -- a pattern match
\* with another prefix contributes none -- and every correctly prefixed
\* literal of the heap is found.
C11_LengthPrefixDecides ==
    Classified2 =>
        /\ result.value.tag = "Rando" =>
              result.value.v \in LiteralVersions(UsHeap)
        /\ LiteralVersions(UsHeap) # {} => result.value.tag = "Rando"
        /\ (LiteralVersions(UsHeap) = {} /\ OverflowLiterals(UsHeap) = {}) =>
              extract_rando_version(UsHeap) = None

\* a literal behind a pattern match with a wrong prefix is found
C11_Witness ==
    /\ Classified2
    /\ UsHeap = <<0>> \o UsString(TextChars(SmallText), 2)
                    \o TextLiteral(SmallText)
    /\ result.value = Rando(SmallText.v.v)

\* C12: with several accepted literals the result is their maximum under
\* the lexicographic order on (major, minor, patch), wherever in the heap
\* the maximum stands.
C12_MaximumVersion ==
    (Classified2 /\ LiteralVersions(UsHeap) # {}) =>
        /\ result.value.tag = "Rando"
        /\ \A w \in LiteralVersions(UsHeap) : ~LexLess(result.value.v, w)

\* "2.3.1" ahead of "1.0.0" gives (2, 3, 1)
C12_Witness ==
    /\ Classified2
    /\ \E t \in VersionTexts :
        /\ t.major = <<2>>
        /\ UsHeap = <<0>> \o TextLiteral(t) \o TextLiteral(SmallText)
        /\ result.value = Rando(RandoVersion(U64(2), U64(3), U64(1)))

\* C13: a candidate with a digit run beyond the u64 range is discarded,
\* without a panic and without a wrapped value: the result is the maximum
\* of the other literals, and UnknownRando if there is none.
C13_OverflowDiscarded ==
    (Classified2 /\ OverflowLiterals(UsHeap) # {}) =>
        IF LiteralVersions(UsHeap) = {}
        THEN result.value = UnknownRando(compute_hash(buffer))
        ELSE /\ result.value.tag = "Rando"
             /\ result.value.v \in LiteralVersions(UsHeap)

\* an overflowing literal ahead of "1.0.0"
C13_Witness ==
    /\ Classified2
    /\ \E t \in OverflowLiterals(UsHeap) :
            UsHeap = <<0>> \o TextLiteral(t) \o TextLiteral(SmallText)
    /\ result.value = Rando(SmallText.v.v)

(***************************************************************************)
(* Further properties of scans (under SpecScan)                            *)
(***************************************************************************)
\* C14: a scan in which files fail to open, map or classify still returns:
\* those files are dropped, and current and the catalog are built from all
\* the other files.
C14_FailedFilesDropped ==
    (last.op = "scan" /\ scan.failed # {}) =>
        /\ scan.ok
        /\ \A i \in DOMAIN scan.all_dlls : scan.all_dlls[i].path \notin scan.failed
        /\ CatalogKinds = {scan.of[n].cls : n \in DOMAIN scan.of \ scan.failed}
                            \cap {c \in DllClassification : Eligible(c)}
        /\ scan.current =
             IF Target \in DOMAIN scan.of \ scan.failed
             THEN OriDll_new(Target, scan.of[Target].cls)
             ELSE NoDll

\* the only copy of a build fails to open: the catalog lacks that identity
C14_Witness ==
    /\ last.op = "scan" /\ scan.ok
    /\ \E n \in scan.failed :
        /\ Eligible(scan.of[n].cls)
        /\ scan.of[n].cls \notin CatalogKinds
    /\ scan.all_dlls # <<>>

\* C15: for a fixed directory content the scan returns the same current
\* entry and the same catalog -- identities, order and representative paths
\* -- for every order in which the classifications complete.
C15_OrderIndependent ==
    scan.ok =>
        \A o \in Orders(Classified(scan.of, scan.failed)) :
            search_game_dir(o) =
                [current |-> scan.current, all_dlls |-> scan.all_dlls]

\* what holds of every completion order: the current entry and the
\* identities of the catalog in their order
OrderIndependentIdentities ==
    scan.ok =>
        \A o \in Orders(Classified(scan.of, scan.failed)) :
            LET r == search_game_dir(o)
            IN  /\ r.current = scan.current
                /\ [i \in DOMAIN r.all_dlls |-> r.all_dlls[i].kind]
                     = [i \in DOMAIN scan.all_dlls |-> scan.all_dlls[i].kind]

\* the position of the variant in the identity order
IdentityRank(k) ==
    CASE k.tag = "Vanilla" -> 1
      [] k.tag = "Rando" -> 2
      [] k.tag = "UnknownRando" -> 3
      [] OTHER -> 0

IdentityLess(a, b) ==
    \/ IdentityRank(a) < IdentityRank(b)
    \/ a.tag = "Rando" /\ b.tag = "Rando" /\ LexLess(a.v, b.v)
    \/ a.tag = "UnknownRando" /\ b.tag = "UnknownRando" /\ a.hash < b.hash

\* C20: the catalog is strictly ascending: Vanilla, then Rando by
\* (major, minor, patch), then UnknownRando by hash; Invalid and NonDe are
\* not in it.
C20_CatalogAscending ==
    scan.ok =>
        /\ \A i \in DOMAIN scan.all_dlls : IdentityRank(scan.all_dlls[i].kind) > 0
        /\ \A i, j \in DOMAIN scan.all_dlls :
                i < j => IdentityLess(scan.all_dlls[i].kind, scan.all_dlls[j].kind)

\* four identities in a directory that also holds a file of another game
C20_Witness ==
    /\ scan.ok
    /\ Len(scan.all_dlls) = 4
    /\ \E n \in DOMAIN scan.of : ~Eligible(scan.of[n].cls)
    /\ scan.all_dlls[1].kind = Vanilla
    /\ scan.all_dlls[4].kind.tag = "UnknownRando"

(***************************************************************************)
(* Properties of the front end (under SpecGui)                             *)
(***************************************************************************)
\* the threads whose calc is install_dll or install_new_dll
InstallWorkers ==
    {id \in DOMAIN workers :
        workers[id].kind \in {"switch_to_version", "download_update"}}

\* C16: at most one install (install_dll or install_new_dll) is in flight at
\* any time: never two threads hold an install closure; modal_message is
\* set for as long as such a thread has not ended, from its spawn through
\* its calc to its completion handler; and while the App lives
\* modal_message is set only then, so that a switch_to_version or
\* download_update that started a thread while it was set would make two.
C16_OneInstallInFlight ==
    /\ Cardinality(InstallWorkers) <= 1
    /\ InstallWorkers # {} => app.modal_message # None
    /\ (app.alive /\ app.modal_message # None) => InstallWorkers # {}

\* an install has run on its thread and its completion handler has not yet
\* cleared modal_message
C16_Witness ==
    /\ app.alive
    /\ \E id \in InstallWorkers : workers[id].phase = "sync"
    /\ installs = 1
    /\ app.modal_message # None

(***************************************************************************)
(* Properties of repeated switches (under Spec): one switch from any       *)
(* directory, given the catalog of a scan of that directory                *)
(***************************************************************************)
\* the files beside the installed one that hold the build c
Backups(d, c) == {n \in DOMAIN d \ {Target} : d[n].cls = c}

AtMostOneBackup(d) ==
    \A c \in Identities(d) : Cardinality(Backups(d, c)) <= 1

\* the files of d that hold a catalog-eligible build
EligibleFiles(d) == {n \in DOMAIN d : Eligible(d[n].cls)}

IsSwitch == last.op = "install_dll" /\ last.fresh

InstalledIdentity ==
    IF last.op = "install_dll" THEN last.source.kind ELSE last.source.cls

InstalledKnown ==
    \E i \in DOMAIN last.all_dlls : last.all_dlls[i].kind = InstalledIdentity

\* the files an install added beside the installed path
NewFiles == DOMAIN dir \ (DOMAIN last.pre \cup {Target})

SuffixedNames(c) ==
    {TargetName(c) \o "." \o x \o ".dll" : x \in RandomSuffixes}

FirstInstall == IsInstall /\ Target \notin DOMAIN last.pre

\* the bytes the install was to put at the target path
InstalledBytes ==
    IF last.op = "install_dll" THEN last.pre[last.source.path]
    ELSE last.source

\* C19: an install that finds no file at the target path takes it for the
\* first install: the classification reports NotFound, no backup rename is
\* issued, prepare_target fails at no step, the copy/write into the target
\* path is attempted, every file that was there is left as it was, and when
\* the install returns Ok the target path holds the new build.
C19_MissingTargetIsFirstInstall ==
    FirstInstall =>
        /\ last.classified = NotFound
        /\ last.new_name = NoName
        /\ last.step \in {"none", "copy"}
        /\ last.copied
        /\ \A n \in DOMAIN last.pre : n \in DOMAIN dir /\ dir[n] = last.pre[n]
        /\ last.ok => (Target \in DOMAIN dir /\ dir[Target] = InstalledBytes)

\* a first install that succeeded, into a directory that held backups
C19_Witness ==
    /\ FirstInstall
    /\ last.ok
    /\ DOMAIN last.pre # {}
    /\ Target \in DOMAIN dir

(***************************************************************************)
(* Properties of parse_dll on stream directories (under SpecDll)           *)
(***************************************************************************)
\* every range the directory declares lies inside the metadata root
LayoutWellFormed(l) ==
    \A i \in DOMAIN l.names :
        Declared(l.names, l.placement, i).offset
            + Declared(l.names, l.placement, i).size <= LayoutLen(l.names)

\* the directory entries named exactly name
Named(l, name) == {i \in DOMAIN l.names : l.names[i] = name}

\* the file range of the first directory entry named name
DeclaredSlice(l, name) ==
    LET i == CHOOSE k \in Named(l, name) : \A j \in Named(l, name) : k <= j
    IN  Slice(MetadataStart + Declared(l.names, l.placement, i).offset,
              Declared(l.names, l.placement, i).size)

\* C21: on an image with well-formed headers, section table, CLI header
\* and metadata root, parse_dll returns an error if the stream directory has
\* no stream named exactly "#Strings" or none named exactly "#US"; otherwise
\* it returns as strings heap and user-string heap exactly the byte ranges
\* [offset, offset + size) of the metadata root that the directory declares
\* for them (for the first entry of that name, if a name occurs twice).
C21_DeclaredHeapRanges ==
    result.op = "parse_dll" =>
        \A e \in LayoutImages :
            (e.image = buffer /\ LayoutWellFormed(e.layout)) =>
                IF Named(e.layout, NameStrings) = {}
                        \/ Named(e.layout, NameUS) = {}
                THEN result.value.tag = "Err"
                ELSE result.value =
                        Ok(DllHeaps(DeclaredSlice(e.layout, NameStrings),
                                    DeclaredSlice(e.layout, NameUS)))

\* both names are there after names that only resemble them, and the
\* ranges declared for them are returned
C21_Witness ==
    /\ result.op = "parse_dll"
    /\ result.value.tag = "Ok"
    /\ \E e \in LayoutImages :
        /\ e.image = buffer
        /\ LayoutWellFormed(e.layout)
        /\ Len(e.layout.names) = 4
        /\ result.value.v.us = DeclaredSlice(e.layout, NameUS)
        /\ result.value.v.us.len = 4

(***************************************************************************)
(* Properties of parse_dll on truncated images (under SpecDll)             *)
(***************************************************************************)
\* the minimal images parse_dll succeeds on
ValidMinimalImages ==
    {m \in MinimalImages :
        parse_dll(m, TRUE).tag = "Ok" /\ parse_dll(m, FALSE).tag = "Ok"}

IsProperPrefix(b, m) == Len(b) < Len(m) /\ b = SubSeq(m, 1, Len(b))

\* C22: parse_dll applied to a proper prefix, of any length from 0 to the
\* length minus one, of a valid minimal image returns an error: it does
\* not succeed and it does not panic.
C22_PrefixesFail ==
    result.op = "parse_dll" =>
        \A m \in ValidMinimalImages :
            IsProperPrefix(buffer, m) => result.value.tag = "Err"

\* every one of the minimal images parses, and the prefix that lacks only
\* the last byte of the section entry's last field read fails
C22_Witness ==
    /\ ValidMinimalImages = MinimalImages
    /\ result.op = "parse_dll"
    /\ buffer = SubSeq(TailHeaderImage, 1, Len(TailHeaderImage) - 1)
    /\ result.value = Err("EOF section")

(***************************************************************************)
(* Properties of parse_dll's arithmetic (under SpecDll)                    *)
(***************************************************************************)
\* C23: no arithmetic step of parse_dll on a 32-bit header field aborts on
\* overflow, whatever the field holds: with a section entry whose
\* virtual_start + virtual_size exceeds 2^32 - 1, and with a metadata
\* version length above 2^32 - 4, parse_dll still returns Ok or Err.
C23_ArithmeticNeverAborts ==
    result.op = "parse_dll" => result.value.tag # "Panic"

(***************************************************************************)
(* Properties of the sort order and the equality of identities (under      *)
(* SpecScan)                                                               *)
(***************************************************************************)
\* Identities to compare: every variant, versions that differ in one
\* component and in one 16-bit limb of a component, every hash.
ComparedVersions ==
    {RandoVersion(U64(a), U64(b), U64(c)) : a, b, c \in {0, 1, 65536}}
        \cup {RandoVersion(U64Max, U64(0), U64(0)),
              RandoVersion(<<1, 0, 0, 0>>, U64(0), <<0, 1, 0, 0>>)}
        \cup Versions

ComparedKinds ==
    {Vanilla} \cup {Rando(v) : v \in ComparedVersions}
        \cup {UnknownRando(h) : h \in Hashes}

\* a and b are equal under the sort key's order
OrderEqual(a, b) == ~KindLess(a, b) /\ ~KindLess(b, a)

\* equal under the order if and only if equal for same_as_previous
OrderConsistentWithEquality ==
    \A a, b \in ComparedKinds : OrderEqual(a, b) <=> same_as_previous(a, b)

\* C24: identities compare as equal under the order of the sort key if and
\* only if same_as_previous treats them as equal; and so, whatever the
\* order in which a scan collected its entries, after the sort the entries
\* with equal identities are adjacent and no two entries that pass the
\* comparison of neighbours have equal identities.
C24_EqualityConsistentWithOrder ==
    /\ OrderConsistentWithEquality
    /\ scan.ok =>
        \A o \in Orders(Classified(scan.of, scan.failed)) :
            LET sorted == sort_by_kind(o)
                kept == FilterDuplicates(sorted, NoDll)
            IN  /\ \A i, j, k \in DOMAIN sorted :
                        (i < k /\ k < j
                            /\ same_as_previous(sorted[i].kind, sorted[j].kind))
                        => same_as_previous(sorted[i].kind, sorted[k].kind)
                /\ \A i, j \in DOMAIN kept :
                        same_as_previous(kept[i].kind, kept[j].kind) => i = j

\* two files of one build with a file of a greater and one of a smaller
\* build: the scan kept three entries
C24_Witness ==
    /\ scan.ok /\ scan.failed = {}
    /\ Len(scan.all_dlls) = 3
    /\ \E m, n \in DOMAIN scan.of :
        /\ m # n
        /\ scan.of[m].cls = Rando(RandoVersion(U64(1), U64(0), U64(0)))
        /\ scan.of[n].cls = scan.of[m].cls
    /\ \E n \in DOMAIN scan.of : scan.of[n].cls = Vanilla
    /\ \E n \in DOMAIN scan.of : scan.of[n].cls.tag = "UnknownRando"

(***************************************************************************)
(* Properties of the front end's catalog (under SpecGuiDirs)               *)
(***************************************************************************)
ScanInFlight == \E id \in DOMAIN workers : workers[id].kind = "update_dlls"

\* C26: whenever no scan is in flight, the catalog the application holds
\* (current_dll, all_dlls) is the result of scanning the game directory now
\* configured; and every install is given a catalog of the directory it
\* installs into.
C26_CatalogOfConfiguredDir ==
    /\ (app.alive /\ ~ScanInFlight /\ app.game_dir # Unset
            /\ app.catalog_dir # Unset)
        => app.catalog_dir = app.game_dir
    /\ \A id \in InstallWorkers :
            workers[id].catalog_dir \in {Unset, workers[id].game_dir}

(***************************************************************************)
(* resolve_rva (under SpecDll)                                             *)
(***************************************************************************)
\* parse_dll up to the section table: the optional header and the sections
HeaderOf(data, overflow_checks) ==
    LET lfanew == read_u32(data, Slice(0, Len(data)), 60, "EOF lfanew")
    IN  IF lfanew.tag = "Err" THEN None
        ELSE
        LET pe_header_opt == GetFrom(Slice(0, Len(data)), AsUsize(lfanew.v))
        IN  IF ~pe_header_opt.some THEN None
            ELSE
            LET pe_header == pe_header_opt.v
                magic == Get(pe_header, 0, 4)
                num_sections == read_u16(data, pe_header, 6, "EOF num_sections")
                opt_header_size == read_u16(data, pe_header, 20,
                                            "EOF opt_header_size")
            IN  IF ~(magic.some /\ Bytes(data, magic.v) = <<80, 69, 0, 0>>)
                    \/ num_sections.tag = "Err" \/ opt_header_size.tag = "Err"
                THEN None
                ELSE
                LET optional_header == Get(pe_header, 24, 24 + opt_header_size.v)
                    sections == ReadSections(data, pe_header, opt_header_size.v,
                                             num_sections.v, 0, overflow_checks,
                                             <<>>)
                IN  IF ~optional_header.some \/ sections.tag # "Ok" THEN None
                    ELSE Some([optional_header |-> optional_header.v,
                               sections |-> sections.v])

Header == HeaderOf(buffer, overflow_checks_on)

\* the sections whose virtual range holds the RVA
Holding(rva, sections) ==
    {i \in DOMAIN sections :
        /\ ~U32Less(rva, sections[i].virtual_start)
        /\ U32Less(rva, sections[i].virtual_end)}

\* what resolve_rva is to return
Resolved(rva, sections, error_msg) ==
    IF Holding(rva, sections) = {} THEN Err(error_msg)
    ELSE LET i == CHOOSE k \in Holding(rva, sections) :
                        \A j \in Holding(rva, sections) : k <= j
             offset == AsUsize(U32Sub(rva, sections[i].virtual_start))
             file_bytes == sections[i].file_bytes
         IN  IF offset > file_bytes.len THEN Err(error_msg)
             ELSE Ok(Slice(file_bytes.off + offset, file_bytes.len - offset))

CliHeaderRva == read_u32(buffer, Header.v.optional_header, 208, "opt_header too small")

CliHeaderResolved ==
    resolve_rva(CliHeaderRva.v, Header.v.sections, "Invalid CLI header RVA")

MetadataRva == read_u32(buffer, CliHeaderResolved.v, 8, "EOF metadata rva")

\* C25: resolve_rva returns the file-backed bytes of the first section, in
\* the order of the section table, whose virtual range holds the RVA, from
\* offset rva - virtual_start on; it returns the error when no section's
\* range holds the RVA and when that offset lies beyond the file-backed
\* bytes of that section.  Checked on both calls parse_dll makes: for the
\* CLI header and for the metadata root.
C25_ResolveRva ==
    (result.op = "parse_dll" /\ Header.some /\ CliHeaderRva.tag = "Ok") =>
        /\ CliHeaderResolved
              = Resolved(CliHeaderRva.v, Header.v.sections,
                         "Invalid CLI header RVA")
        /\ CliHeaderResolved.tag = "Err" => result.value = CliHeaderResolved
        /\ (CliHeaderResolved.tag = "Ok" /\ MetadataRva.tag = "Ok") =>
              LET metadata == resolve_rva(MetadataRva.v, Header.v.sections,
                                          "Invalid metadata RVA")
              IN  /\ metadata = Resolved(MetadataRva.v, Header.v.sections,
                                         "Invalid metadata RVA")
                  /\ metadata.tag = "Err" => result.value = metadata
                  /\ metadata.tag = "Ok" =>
                        result.value
                          = ParseMetadata(buffer, metadata.v, overflow_checks_on)

\* two sections hold the RVA of the CLI header, the first of them is backed
\* by other bytes than the second, and the parse went on with the first
C25_Witness ==
    /\ result.op = "parse_dll" /\ Header.some /\ CliHeaderRva.tag = "Ok"
    /\ Cardinality(Holding(CliHeaderRva.v, Header.v.sections)) = 2
    /\ Header.v.sections[1].file_bytes # Header.v.sections[2].file_bytes
    /\ CliHeaderResolved.tag = "Ok"
    /\ CliHeaderResolved.v.off = Header.v.sections[1].file_bytes.off
    /\ result.value.tag = "Ok"

(***************************************************************************)
(* The catalog representative of the installed build (under Spec)          *)
(***************************************************************************)
\* the catalog entries of the identity the installed file has
InstalledEntries ==
    {i \in DOMAIN scan.all_dlls : scan.all_dlls[i].kind = scan.of[Target].cls}

\* the other files of the scanned directory that hold the installed build
CopiesInDir ==
    {n \in DOMAIN scan.of \ {Target} :
        Eligible(scan.of[n].cls) /\ scan.of[n].cls = scan.of[Target].cls}

\* those of them the scan classified
CopiesFound == CopiesInDir \cap Found

\* C27 as stated: when another file of the directory has the identity of
\* the installed file, the catalog entry of that identity has another path
\* than the installed one, and a following install with this catalog issues
\* no backup rename.
C27_CopyInDirIsRepresentative ==
    (scan.ok /\ Target \in DOMAIN scan.of /\ CopiesInDir # {}) =>
        /\ InstalledEntries # {}
        /\ \A i \in InstalledEntries : scan.all_dlls[i].path # Target
        /\ (IsInstall /\ last.fresh /\ last.classified.ok) => ~RenameIssued

\* C27, amended: when another file that the scan classified has the
\* identity of the installed file, the catalog holds one entry of that
\* identity and its path is that of such a file, so that a following
\* install with this catalog finds the copy, issues no backup rename and
\* adds no file; the installed path is the representative of its identity
\* exactly when the scan classified the installed file and no other file
\* it classified has that identity.
C27_CopyFoundIsRepresentative ==
    (scan.ok /\ Target \in DOMAIN scan.of) =>
        /\ CopiesFound # {} =>
                /\ Cardinality(InstalledEntries) = 1
                /\ \A i \in InstalledEntries :
                        scan.all_dlls[i].path \in CopiesFound
                /\ (IsInstall /\ last.fresh /\ last.classified.ok) =>
                        /\ ~RenameIssued
                        /\ DOMAIN dir \subseteq DOMAIN last.pre
        /\ (\E i \in InstalledEntries : scan.all_dlls[i].path = Target)
                <=> (Target \in Found /\ CopiesFound = {})

\* the installed build has a classified copy, and another build was
\* installed over it without a backup
C27_Witness ==
    /\ scan.ok /\ Target \in Found /\ CopiesFound # {}
    /\ IsInstall /\ last.fresh /\ last.classified.ok /\ last.ok
    /\ ~RenameIssued
    /\ dir[Target].cls # scan.of[Target].cls

(***************************************************************************)
(* The frame of an install (under Spec)                                    *)
(***************************************************************************)
\* C28: install_dll and install_new_dll change nothing in the directory
\* but the target path and at most one newly created backup path: every
\* other file that existed before the call exists after it under its name
\* with its content, whether the call succeeded or failed.
C28_FrameOfInstall ==
    IsInstall =>
        /\ \A n \in DOMAIN last.pre \ {Target} :
                n \in DOMAIN dir /\ dir[n] = last.pre[n]
        /\ Cardinality(DOMAIN dir \ (DOMAIN last.pre \cup {Target})) <= 1

(***************************************************************************)
(* An occupant that is no build (under Spec)                               *)
(***************************************************************************)
\* the occupant of the target path classified as Invalid or NotTargetGame
OccupantNoBuild ==
    /\ IsInstall /\ last.classified.ok
    /\ last.classified.value.tag \in {"Invalid", "NonDe"}

\* C30: when the occupant of the target path classifies as Invalid or
\* NotTargetGame, no catalog entry matches it and the install does not
\* overwrite it in place: the rename to Assembly-CSharp.unknown.dll, or to
\* that name with a random suffix, is issued before anything is written;
\* once the rename is carried out the occupant is the file under that name,
\* and when the rename fails the install fails with the directory as it
\* was.
C30_NoBuildNeverOverwritten ==
    OccupantNoBuild =>
        /\ \A i \in DOMAIN last.all_dlls :
                ~KindMatchesClassification(last.all_dlls[i].kind,
                                           last.classified.value)
        /\ RenameIssued
        /\ last.new_name \in {"Assembly-CSharp.unknown.dll"}
                \cup {"Assembly-CSharp.unknown." \o x \o ".dll" :
                        x \in RandomSuffixes}
        /\ Renamed =>
                /\ last.new_name \in DOMAIN dir
                /\ dir[last.new_name] = last.pre[Target]
        /\ ~Renamed => (~last.ok /\ ~last.copied /\ dir = last.pre)

\* a build was written to the target path after an Invalid occupant was
\* renamed to Assembly-CSharp.unknown.dll, beside catalog entries
C30_Witness ==
    /\ OccupantNoBuild /\ last.ok /\ last.copied
    /\ last.all_dlls # <<>>
    /\ last.new_name = "Assembly-CSharp.unknown.dll"
    /\ dir[last.new_name] = last.pre[Target]
    /\ Eligible(dir[Target].cls)

(***************************************************************************)
(* The rescan after an install (under SpecGui)                             *)
(***************************************************************************)
\* what search_game_dir can return for a directory
Scans(d) ==
    UNION {{search_game_dir(collected) :
                collected \in Orders(Classified(d, failed))} :
           failed \in {f \in SUBSET DOMAIN d : Cardinality(f) <= MaxScanErrors}}

\* the catalog the application holds is a scan of the directory as it is
CatalogReflects(d) ==
    \E r \in Scans(d) :
        app.current_dll = r.current /\ app.all_dlls = r.all_dlls

\* an install has run, its completion handler too, and no scan is in flight
AfterInstall ==
    app.alive /\ installs >= 1 /\ InstallWorkers = {} /\ ~ScanInFlight

\* C29 as stated: once the worker of an install has finished and the
\* rescan its completion handler started is over, modal_message is clear
\* and the catalog (current_dll, all_dlls) is the result of scanning the
\* directory as the install left it.
C29_CatalogAlwaysRescanned ==
    AfterInstall => (app.modal_message = None /\ CatalogReflects(dir))

\* the thread id runs its completion handler in this step: it ends, and
\* its identifier is free or that of a thread spawned in this step
Completes(id) ==
    /\ app.alive
    /\ id \in DOMAIN workers
    /\ workers[id].phase = "sync"
    /\ id \notin DOMAIN workers' \/ workers'[id].phase = "calc"

\* the completion handler of an install clears modal_message and starts a
\* scan; the install has left the directory as it is now
RescanStarted ==
    \A id \in InstallWorkers :
        Completes(id) =>
            /\ app'.modal_message = None
            /\ app'.newest_version_installed = Checking
            /\ \E j \in DOMAIN workers' :
                    /\ workers'[j].kind = "update_dlls"
                    /\ workers'[j].phase = "calc"
            /\ dir' = dir

\* the completion handler of a scan replaces (current_dll, all_dlls) by the
\* result where search_game_dir succeeded, and leaves them where it failed
RescanStored ==
    \A id \in DOMAIN workers :
        (workers[id].kind = "update_dlls" /\ Completes(id)) =>
            IF workers[id].value.some
            THEN /\ app'.current_dll = workers[id].value.v.current
                 /\ app'.all_dlls = workers[id].value.v.all
                 /\ app'.newest_version_installed = workers[id].value.v.newest
            ELSE /\ app'.current_dll = app.current_dll
                 /\ app'.all_dlls = app.all_dlls
                 /\ app'.newest_version_installed = InstalledNone

\* no scan is in flight while an install is, and what a scan has returned
\* is a scan of the directory as it is
RescanFresh ==
    /\ InstallWorkers # {} => (~ScanInFlight /\ app.modal_message # None)
    /\ \A id \in DOMAIN workers :
            (workers[id].kind = "update_dlls" /\ workers[id].phase = "sync"
                    /\ workers[id].value.some) =>
                \E r \in Scans(dir) :
                    /\ workers[id].value.v.current = r.current
                    /\ workers[id].value.v.all = r.all_dlls

\* C29, amended: with the game directory left as it is, the completion
\* handler of every install (successful or failed, a failed download
\* included) clears modal_message and starts a scan of the directory; no
\* scan is in flight while the install is, so that scan reads the directory
\* as the install left it; where it succeeds its result replaces
\* (current_dll, all_dlls), and where search_game_dir fails they stay as
\* they were before the install and newest_version_installed becomes None.
\* Hence, once that scan is over, the catalog is a scan of the directory as
\* the install left it unless newest_version_installed is None.
C29_RescanAfterInstall ==
    /\ [](RescanFresh
          /\ (AfterInstall =>
                /\ app.modal_message = None
                /\ app.newest_version_installed # InstalledNone
                        => CatalogReflects(dir)))
    /\ [][RescanStarted /\ RescanStored]_vars

\* an install has changed the directory, the scan its completion handler
\* started is over, and the catalog names the build now installed
C29_Witness ==
    /\ AfterInstall
    /\ app.modal_message = None
    /\ app.newest_version_installed # InstalledNone
    /\ Target \in DOMAIN dir
    /\ app.current_dll # NoDll
    /\ app.current_dll.kind = dir[Target].cls
    /\ DOMAIN dir # {Target}

=============================================================================
